---- MODULE Spec2Model ----
(***************************************************************************)
(* Device session manager of the Arduino SMS server (ArduinoConnection).   *)
(* One read-loop goroutine, the reconnection goroutines it spawns, the     *)
(* hourly wakeup goroutine and the callers of the public methods           *)
(* (SendSMS, Ping, Wakeup, WaitForGSM, Close) run interleaved.  A section  *)
(* of code that runs under one mutex without blocking is one step.         *)
(***************************************************************************)
EXTENDS Naturals, Sequences, FiniteSets

\* ---------------------------------------------------------------- bounds
\* Number of caller threads using the public methods concurrently.
NumCallers == 2
\* Number of calls of public methods in one run.
MaxCalls == 2
\* Number of serial.Open calls that may succeed after the initial one.
MaxOpens == 1
\* Number of times the device is unplugged in one run.
MaxUnplugs == 1
\* Number of goroutine slots for attemptReconnection.
NumSups == 2

Callers == 1..NumCallers
Sups == 1..NumSups
Handles == 0..MaxOpens
\* A waiter channel is named by the caller whose running WaitForGSM made it;
\* a channel whose WaitForGSM has returned can only be reached through
\* a.gsmWaiters and is named Abandoned.
Abandoned == 0
Chans == Callers \cup {Abandoned}

\* ------------------------------------------------------------- constants
deviceModeAuto == "auto"

\* Values of the "gsm" field of a decoded line ("" when the field is absent).
GsmValues == {"", "connected", "disconnected", "searching"}
\* Values of the "event" field the dispatch distinguishes.
EventValues == {"", "gsm_state", "received"}
\* A decoded SerialResponse, reduced to the fields the session acts on.
\* Values of the "status" field, and of "number" and "content" in a
\* "received" event.
StatusValues == {"", "ok"}
Numbers == {"+1"}
Contents == {"a", "b"}
\* The decoded lines (SerialResponse), reduced to the fields the session
\* acts on or passes on; ok tells that json.Unmarshal returned no error.
AllFrames ==
    UNION {[ok : {TRUE}, event : {e}, gsm : GsmValues, status : StatusValues,
            number : IF e = "received" THEN Numbers ELSE {""},
            content : IF e = "received" THEN Contents ELSE {""}] : e \in EventValues}
\* A line on which json.Unmarshal fails after it has filled some fields,
\* such as {"event":"received","gsm":"connected","number":"+1","content":7}.
BadLine == [ok |-> FALSE, event |-> "received", gsm |-> "connected", status |-> "",
            number |-> "+1", content |-> ""]
AllLines == AllFrames \cup {BadLine}
\* The lines the device sends when the histories are not kept: status and
\* content do not act on the session, and a line without an event acts as
\* a "gsm_state" line does.
Frames == {f \in AllFrames : f.status = "" /\ f.content \in {"", "a"} /\ f.event # ""}
Lines == Frames \cup {BadLine}

\* Errors are chains of messages, outermost wrapper first (fmt.Errorf %w).
Nil == <<>>
ErrPortWrite == <<"port write failed">>
ErrNotConnected == <<"not connected to Arduino">>
Wrap(msg, err) == <<msg>> \o err

IsNotConnected(err) == err # Nil /\ err[Len(err)] = "not connected to Arduino"
IsNotReady(err) == err # Nil /\ err[1] = "GSM not ready"

VARIABLES
    connected,        \* a.connected
    port,             \* a.port: the handle the session holds
    hstat,            \* state of every handle: unopened, open, dead, closed
    devicePresent,    \* whether the device node exists on the host
    unplugs,          \* times the device was unplugged so far
    deviceMode,       \* a.deviceMode
    mu,               \* holder of a.mu: 0 free, c the caller sleeping in SendSMS
    stopped,          \* a.stopChan is closed
    shouldReconnect,  \* a.shouldReconnect
    reconnecting,     \* a.reconnecting
    gsmReady,         \* a.gsmReady
    gsmWaiters,       \* a.gsmWaiters: sequence of channels
    chanBuf,          \* items buffered in each caller's channel (capacity 1),
                      \* and in all the abandoned channels together
    rlPc,             \* readLoop: position
    supPc,            \* attemptReconnection goroutines: position
    supPort,          \* handle a goroutine opened and has not installed yet
    pwPc,             \* periodicWakeup: position
    pc,               \* callers: position
    callOp,           \* callers: the public method being run
    calls,            \* calls made so far
    res,              \* callers: returned error of the finished call
    waitRes,          \* callers: returned bool of the finished WaitForGSM
    writes,           \* callers: port.Write calls of the running call
    atCall,           \* callers: connected, gsmReady when the call was made
    everConn,         \* callers: connected held at some point of the call
    sawConn,          \* callers: a "connected" frame was dispatched in the call
    regd,             \* callers: the call appended a channel to a.gsmWaiters
    closeDone,        \* some Close() has returned
    dPc,              \* DiscoverArduino: position ("idle": no call is modelled)
    dPorts,           \* DiscoverArduino: ports, the result of GetPortsList
    dListErr,         \* DiscoverArduino: GetPortsList returned an error
    dReplies,         \* the ports on which a device answers a probe with data
    dPort,            \* DiscoverArduino: index of the outer loop (port)
    dPattern,         \* DiscoverArduino: index of the inner loop (pattern)
    dProbes,          \* the testSerialPort calls made so far, in order
    dRes,             \* DiscoverArduino: what it returned
    dFault,           \* how a probe of each port that does not answer fails
    tPc,              \* testSerialPort: position ("none": no probe runs)
    dHandles,         \* the handles the probes opened, in order: open or closed
    wPc,              \* the command on its way: position ("idle": none)
    wOp,              \* what writes the command: send, ping, wakeup or typed
    wNumber,          \* SendSMS: the number argument
    wContent,         \* SendSMS: the content argument
    wLine,            \* the bytes SendSMS wrote to the port
    wGot,             \* firmware: what handleSendSMS made of the command
    fGsm,             \* firmware: gsmConnected
    fOut,             \* firmware: the lines it printed, in order
    fSms,             \* firmware: the messages handed to the modem, in order
    sPc,              \* main: position ("idle": startup is not modelled)
    sEnv,             \* the environment variable DEVICE_MODE
    sPortName,        \* main: portName
    sOpened,          \* main: how its NewArduinoConnection call ended
    sCreated,         \* main: the values assigned to smsConn, in order
    sTarget,          \* the target of the session's reconnection attempt
    cPc,              \* readLoop's line codec: position ("idle": not followed)
    cSent,            \* the bytes the device sends, in order
    cChunks,          \* the sizes of the chunks the Reads returned, in order
    lineBuf,          \* readLoop: lineBuf
    cDispatched,      \* the lines passed to handleResponse, in order
    cSwapped,         \* reconnect has replaced the port readLoop reads
    cStale,           \* how many bytes at the front of lineBuf came from the lost port
    cMixed,           \* history: a dispatched line held bytes of both ports
    audit,            \* whether atCall, everConn and sawConn are kept
    traced,           \* whether the two histories below are kept
    db,               \* a.db is not nil
    rxLog,            \* history: the decoded lines handleResponse got, in order
    saved,            \* history: the SaveReceivedSMS calls, in order
    rxSeen            \* history: a.gsmWaiters as each handled line found it

vars == <<connected, port, hstat, devicePresent, unplugs, deviceMode, mu, stopped,
          shouldReconnect, reconnecting, gsmReady, gsmWaiters, chanBuf,
          rlPc, supPc, supPort, pwPc, pc, callOp, calls,
          res, waitRes, writes, atCall, everConn, sawConn, regd, closeDone,
          dPc, dPorts, dListErr, dReplies, dPort, dPattern, dProbes, dRes,
          dFault, tPc, dHandles,
          wPc, wOp, wNumber, wContent, wLine, wGot, fGsm, fOut, fSms,
          sPc, sEnv, sPortName, sOpened, sCreated, sTarget,
          cPc, cSent, cChunks, lineBuf, cDispatched, cSwapped, cStale, cMixed,
          audit, traced, db, rxLog, saved, rxSeen>>

\* The variables of a DiscoverArduino call, and those of the session.
discVars == <<dPc, dPorts, dListErr, dReplies, dPort, dPattern, dProbes, dRes,
              dFault, tPc, dHandles>>
connVars == <<connected, port, hstat, devicePresent, unplugs, deviceMode, mu, stopped,
              shouldReconnect, reconnecting, gsmReady, gsmWaiters, chanBuf,
              rlPc, supPc, supPort, pwPc, pc, callOp, calls,
              res, waitRes, writes, atCall, everConn, sawConn, regd, closeDone>>

\* The variables of a send command followed from SendSMS into the firmware.
wireVars == <<wPc, wOp, wNumber, wContent, wLine, wGot, fGsm, fOut, fSms>>

\* The target of a reconnection attempt not made yet.
NoTarget == [discovery |-> FALSE, port |-> <<>>]

\* The variables of main's choice of the connection.
startVars == <<sPc, sEnv, sPortName, sOpened, sCreated, sTarget>>

\* The variables of the line codec of readLoop.
codecVars == <<cPc, cSent, cChunks, lineBuf, cDispatched, cSwapped, cStale, cMixed>>

\* The database of the session and the histories of what readLoop handled.
rxVars == <<audit, traced, db, rxLog, saved, rxSeen>>

\* What the steps of the session leave alone, and what those of a
\* DiscoverArduino call leave alone.
offDispatch == <<discVars, wireVars, startVars, codecVars>>
offSession == <<offDispatch, rxVars>>
offDiscover == <<connVars, wireVars, startVars, codecVars, rxVars>>
offWire == <<connVars, discVars, startVars, codecVars, rxVars>>
offStart == <<connVars, wireVars, codecVars, rxVars>>
offCodec == <<connVars, discVars, wireVars, startVars, rxVars>>

sessionVars == <<connected, port, hstat, mu, stopped, shouldReconnect>>
envVars == <<devicePresent, unplugs, deviceMode>>
gateVars == <<gsmReady, gsmWaiters, chanBuf>>
rlVars == <<rlPc>>
supVars == <<supPc, supPort, reconnecting>>
callerVars == <<pc, callOp, calls, res, waitRes, writes, atCall>>
ghostVars == <<everConn, sawConn, regd, closeDone>>

Range(s) == {s[i] : i \in 1..Len(s)}

\* ------------------------------------------------------------------ init
\* State when NewArduinoConnection returns: the port is open, the warm-up
\* sleep is over, readLoop and periodicWakeup have been started.  It is
\* the constructor main calls, and it passes deviceModeAuto to
\* NewArduinoConnectionWithMode (lines 147-150).
ConnInit ==
    /\ connected = TRUE
    /\ port = 0
    /\ hstat = [h \in Handles |-> IF h = 0 THEN "open" ELSE "unopened"]
    /\ devicePresent = TRUE
    /\ unplugs = 0
    /\ deviceMode = deviceModeAuto
    /\ mu = 0
    /\ stopped = FALSE
    /\ shouldReconnect = TRUE
    /\ reconnecting = FALSE
    /\ gsmReady = FALSE
    /\ gsmWaiters = <<>>
    /\ chanBuf = [ch \in Chans |-> 0]
    /\ rlPc = "select"
    /\ supPc = [s \in Sups |-> "none"]
    /\ supPort = [s \in Sups |-> 0]
    /\ pwPc = "select"
    /\ pc = [c \in Callers |-> "idle"]
    /\ callOp = [c \in Callers |-> "none"]
    /\ calls = 0
    /\ res = [c \in Callers |-> Nil]
    /\ waitRes = [c \in Callers |-> FALSE]
    /\ writes = [c \in Callers |-> <<>>]
    /\ atCall = [c \in Callers |-> [connected |-> FALSE, ready |-> FALSE]]
    /\ everConn = [c \in Callers |-> FALSE]
    /\ sawConn = [c \in Callers |-> FALSE]
    /\ regd = [c \in Callers |-> FALSE]
    /\ closeDone = FALSE

\* No DiscoverArduino call is followed step by step.
DiscoverIdle ==
    /\ dPc = "idle"
    /\ dPorts = <<>>
    /\ dListErr = FALSE
    /\ dReplies = {}
    /\ dPort = 0
    /\ dPattern = 0
    /\ dProbes = <<>>
    /\ dRes = [port |-> <<>>, err |-> Nil]
    /\ dFault = <<>>
    /\ tPc = "none"
    /\ dHandles = <<>>

\* No send command is followed byte by byte.
WireIdle ==
    /\ wPc = "idle"
    /\ wOp = "none"
    /\ wNumber = <<>>
    /\ wContent = <<>>
    /\ wLine = <<>>
    /\ wGot = [number |-> <<>>, content |-> <<>>, err |-> <<>>]
    /\ fGsm = FALSE
    /\ fOut = <<>>
    /\ fSms = <<>>

\* main's startup is not followed.
StartIdle ==
    /\ sPc = "idle"
    /\ sEnv = <<>>
    /\ sPortName = <<>>
    /\ sOpened = "none"
    /\ sCreated = <<>>
    /\ sTarget = NoTarget

\* The bytes of the lines are not followed.
CodecIdle ==
    /\ cPc = "idle"
    /\ cSent = <<>>
    /\ cChunks = <<>>
    /\ lineBuf = <<>>
    /\ cDispatched = <<>>
    /\ cSwapped = FALSE
    /\ cStale = 0
    /\ cMixed = FALSE

\* The session has a database; the lines handled are not recorded.
RxOff ==
    /\ traced = FALSE
    /\ db = TRUE
    /\ rxLog = <<>>
    /\ saved = <<>>
    /\ rxSeen = <<>>

\* What the calls found and saw is kept.
RxIdle == RxOff /\ audit = TRUE

Init == ConnInit /\ DiscoverIdle /\ WireIdle /\ StartIdle /\ CodecIdle /\ RxIdle

\* ----------------------------------------------------------- environment
\* The device is unplugged: every handle open on it stops working.
Unplug ==
    /\ devicePresent
    /\ unplugs < MaxUnplugs
    /\ unplugs' = unplugs + 1
    /\ devicePresent' = FALSE
    /\ hstat' = [h \in Handles |-> IF hstat[h] = "open" THEN "dead" ELSE hstat[h]]
    /\ UNCHANGED <<connected, port, mu, stopped, shouldReconnect, deviceMode,
                   gateVars, rlVars, supVars, pwPc, callerVars, ghostVars>>
    /\ UNCHANGED offSession

\* The device is plugged in again; handles opened before stay dead.
Plug ==
    /\ ~devicePresent
    /\ devicePresent' = TRUE
    /\ UNCHANGED <<sessionVars, unplugs, deviceMode, gateVars, rlVars, supVars, pwPc,
                   callerVars, ghostVars>>
    /\ UNCHANGED offSession

\* port.Write on handle h succeeds on a working handle only.
WriteOk(h) == hstat[h] = "open"
WriteErr(h) == IF WriteOk(h) THEN Nil ELSE ErrPortWrite

\* port.Close on handle h.  What closing a closed port returns is up to the
\* serial library: nil or an error.
ClosedStat(h) == [hstat EXCEPT ![h] = "closed"]
CloseErrs(h) == IF hstat[h] = "closed" THEN {Nil, <<"port already closed">>} ELSE {Nil}

\* a.mu.Lock() returns when no other goroutine holds a.mu; holder 0 is none.
LockFreeBug(holder) == TRUE
LockFree(holder) == holder = 0

\* ------------------------------------------------------ unlocked reads
\* a.connected is written under a.mu but read without it by readLoop.  The
\* read returns the current value or one that a write by another goroutine
\* replaced: FALSE once reconnect has rewritten TRUE, TRUE once Close has
\* written FALSE.
RacyConnected ==
    IF connected THEN (IF port > 0 THEN BOOLEAN ELSE {TRUE})
    ELSE (IF stopped THEN BOOLEAN ELSE {FALSE})

\* a.shouldReconnect is written by Close under a.mu and read without it.
RacyShouldReconnect == IF shouldReconnect THEN {TRUE} ELSE BOOLEAN

\* a.port is written by reconnect under a.mu and read without it by
\* readLoop, whose Read then blocks for up to the read timeout: the Read
\* that returns now runs on the current handle or on the one reconnect
\* replaced.
RacyPort == IF port > 0 THEN {port - 1, port} ELSE {port}

\* -------------------------------------------------------- readiness gate
\* The new value of a.gsmReady for a reported state (line 414).
GsmReadyAfterBug(state) == state # "disconnected"
GsmReadyAfter(state) == state = "connected"

\* The channels updateGSMState sends to on the ready transition (line 424).
NotifyTargetsBug(ws) == IF ws = <<>> THEN {} ELSE {ws[1]}
NotifyTargets(ws) == Range(ws)

\* The abandoned channels among the waiters ws.
AbandonedIn(ws) == {i \in 1..Len(ws) : ws[i] = Abandoned}

\* select { case ch <- true: default: } on every waiter: a send into a
\* channel whose one-slot buffer is full is skipped.  Every abandoned
\* channel in the list is a channel of its own, with an empty buffer.
Notified(buf, ws) ==
    [ch \in Chans |->
        IF ch \notin NotifyTargets(ws) THEN buf[ch]
        ELSE IF ch = Abandoned THEN buf[ch] + Cardinality(AbandonedIn(ws))
        ELSE IF buf[ch] < 1 THEN 1 ELSE buf[ch]]

\* Whether the sends to the waiters ws can complete at once (lines 425-428:
\* yes, each is a select with a default case).  A plain send on an
\* unbuffered channel would wait for a receiver, which an abandoned channel
\* never has.
NotifyEnabledBug(ws) == AbandonedIn(ws) = {}
NotifyEnabled(ws) == TRUE

\* a.gsmWaiters after the waiters ws were notified (line 430).
WaitersAfterNotifyBug(ws) == ws
WaitersAfterNotify(ws) == <<>>

\* Whether updateGSMState goes on to notify the waiters (lines 416-422).
ShouldNotifyBug(wasReady, isReady) == TRUE
ShouldNotify(wasReady, isReady) == isReady # wasReady /\ isReady

\* updateGSMState(state), under a.gsmMu.
updateGSMState(state) ==
    /\ gsmReady' = GsmReadyAfter(state)
    /\ IF ShouldNotify(gsmReady, GsmReadyAfter(state))
       THEN /\ NotifyEnabled(gsmWaiters)
            /\ chanBuf' = Notified(chanBuf, gsmWaiters)
            /\ gsmWaiters' = WaitersAfterNotify(gsmWaiters)
       ELSE UNCHANGED <<chanBuf, gsmWaiters>>

\* Whether handleResponse returns at once because json.Unmarshal failed
\* (lines 500-504).
DecodeFailsBug(line) == FALSE
DecodeFails(line) == ~line.ok

\* Whether handleResponse passes the line's gsm field on (line 507).
HasGsmFieldBug(line) == ~DecodeFails(line) /\ line.event = "gsm_state" /\ line.gsm # ""
HasGsmField(line) == ~DecodeFails(line) /\ line.gsm # ""

\* Whether handleResponse calls handleReceivedSMS (line 517).
IsReceivedBug(line) == ~DecodeFails(line) /\ line.event = "received" /\ line.gsm = ""
IsReceived(line) == ~DecodeFails(line) /\ line.event = "received"

\* Longest history of lines kept.
MaxRx == 2

\* handleReceivedSMS(response), lines 540-558: SaveReceivedSMS is called if
\* there is a database, and its error is only logged; a.onReceived is never
\* assigned, so no callback is made.  The call is recorded with the value
\* a.gsmReady has by then.
handleReceivedSMS(response) ==
    IF db /\ traced
    THEN \E ok \in BOOLEAN :
            saved' = Append(saved, [number |-> response.number,
                                    content |-> response.content,
                                    ok |-> ok, ready |-> gsmReady])
    ELSE UNCHANGED saved

\* handleResponse(line) up to the switch: the gsm field (lines 507-509),
\* under a.gsmMu.  Of the switch that follows only "received" does more
\* than log.
handleResponse(line) ==
    IF HasGsmField(line) THEN updateGSMState(line.gsm) ELSE UNCHANGED gateVars

\* A SendSMS call is running in caller c.
InSend(c) == callOp[c] = "send" /\ pc[c] \notin {"idle", "done"}

\* sawConn after the dispatch of line.
SawConnAfter(line) ==
    IF audit /\ HasGsmField(line) /\ line.gsm = "connected"
    THEN [c \in Callers |-> IF InSend(c) THEN TRUE ELSE sawConn[c]]
    ELSE sawConn

\* --------------------------------------------------------------- readLoop
\* isPortClosedError: the error of a Read on a closed handle or on a handle
\* whose device is gone.
ReadErrors == {"timeout", "other", "port has been closed", "no such device"}
isPortClosedError(err) == err \in {"port has been closed", "no such device"}
isTimeout(err) == err = "timeout"

\* What a.port.Read can return on handle h: an error, or "data".
ReadOutcomes(h) ==
    CASE hstat[h] = "open" -> {"timeout", "other", "data"}
      [] hstat[h] = "dead" -> {"no such device"}
      [] OTHER -> {"port has been closed"}

\* Where the loop goes at the end of an iteration.  rlPc = "select" stands
\* for the select and the Read that follows it; an iteration that ends once
\* a.stopChan is closed is followed by the select alone ("stopping").
LoopTop == IF stopped THEN "stopping" ELSE "select"

\* Where the loop goes when a line is done with: to the next line if the
\* buffer holds one more (more; lines 232-244 test nothing but the buffer),
\* or to the top.  The histories end after MaxRx lines.
AfterLine(more) == IF more THEN "dispatch" ELSE LoopTop
MoreLines == IF traced /\ Len(rxLog) >= MaxRx - 1 THEN {FALSE} ELSE BOOLEAN

\* select on a.stopChan: return when it is closed.
RL_Stop ==
    /\ rlPc \in {"select", "stopping"}
    /\ stopped
    /\ rlPc' = "done"
    /\ UNCHANGED <<sessionVars, envVars, gateVars, supVars, pwPc, callerVars,
                   ghostVars>>
    /\ UNCHANGED offSession

\* The Read returns nothing (timeout, n = 0) or an error that is not a
\* port-closed error: the loop continues.
RL_ReadIdle ==
    /\ rlPc = "select"
    /\ ~stopped
    /\ \E h \in RacyPort : \E out \in ReadOutcomes(h) :
          /\ out \in ReadErrors
          /\ isTimeout(out) \/ ~isPortClosedError(out)
    /\ UNCHANGED vars

\* The Read (line 207) returns bytes that complete one line or more.
\* a.stopChan was tested before the Read and is not tested again until
\* these lines are handled.
RL_Read ==
    /\ rlPc = "select"
    /\ \E h \in RacyPort : "data" \in ReadOutcomes(h)
    /\ traced => Len(rxLog) < MaxRx
    /\ rlPc' = "dispatch"
    /\ UNCHANGED <<sessionVars, envVars, gateVars, supVars, pwPc, callerVars,
                   ghostVars>>
    /\ UNCHANGED offSession

\* The next line of the buffer goes to handleResponse (lines 232-244),
\* which decodes it and passes its gsm field to updateGSMState under
\* a.gsmMu.  For a "received" line handleReceivedSMS follows, a.gsmMu
\* released.
RL_Dispatch(line) ==
    /\ rlPc = "dispatch"
    /\ handleResponse(line)
    /\ IF IsReceived(line)
       THEN rlPc' = "save"
       ELSE \E more \in MoreLines : rlPc' = AfterLine(more)
    /\ rxLog' = IF traced THEN Append(rxLog, line) ELSE rxLog
    /\ rxSeen' = IF traced THEN Append(rxSeen, gsmWaiters) ELSE rxSeen
    /\ sawConn' = SawConnAfter(line)
    /\ UNCHANGED <<sessionVars, envVars, supVars, pwPc, callerVars,
                   everConn, regd, closeDone>>
    /\ UNCHANGED <<audit, traced, db, saved, offDispatch>>

\* The line handled last, where the lines are recorded.
LastLine == IF traced /\ rxLog # <<>> THEN rxLog[Len(rxLog)] ELSE BadLine

\* handleResponse goes on to handleReceivedSMS (lines 517-518).
RL_Save ==
    /\ rlPc = "save"
    /\ handleReceivedSMS(LastLine)
    /\ \E more \in {m \in BOOLEAN : (traced /\ m) => Len(rxLog) < MaxRx} :
          rlPc' = AfterLine(more)
    /\ UNCHANGED <<sessionVars, envVars, gateVars, supVars, pwPc, callerVars,
                   ghostVars>>
    /\ UNCHANGED <<audit, traced, db, rxLog, rxSeen, offDispatch>>

\* The line that is handled or saved is the last of the buffer: a Read
\* returns at most 1024 bytes.
RL_LastOfChunk ==
    /\ (\E line \in Lines : RL_Dispatch(line)) \/ RL_Save
    /\ rlPc' \notin {"dispatch", "save"}

\* The Read fails with a port-closed error: handleDisconnection is called
\* if the unlocked read of a.connected gives true (line 212).  The sleep of
\* portClosedRetryDelay that follows is a delay before the next select.
\* The Read that Close interrupts by closing the port fails this way after
\* a.stopChan is closed.
RL_ReadFatal ==
    /\ rlPc = "select"
    /\ \E h \in RacyPort : \E out \in ReadOutcomes(h) :
          out \in ReadErrors /\ isPortClosedError(out)
    /\ \E seen \in RacyConnected :
          rlPc' = IF seen THEN "hd_lock" ELSE LoopTop
    /\ UNCHANGED <<sessionVars, envVars, gateVars, supVars, pwPc, callerVars,
                   ghostVars>>
    /\ UNCHANGED offSession

\* handleDisconnection, lines 263-269, under a.mu.
RL_HandleDisconnection_Lock ==
    /\ rlPc = "hd_lock"
    /\ LockFree(mu)
    /\ IF ~connected
       THEN rlPc' = LoopTop /\ UNCHANGED connected
       ELSE rlPc' = "hd_gsm" /\ connected' = FALSE
    /\ UNCHANGED <<port, hstat, mu, stopped, shouldReconnect, envVars, gateVars, supVars, pwPc, callerVars, ghostVars>>
    /\ UNCHANGED offSession

\* The goroutine slot a new attemptReconnection takes.
FreeSup == CHOOSE s \in Sups : supPc[s] = "none" /\ \A t \in Sups : supPc[t] = "none" => s <= t

\* handleDisconnection, lines 272-274: clear a.gsmReady under a.gsmMu.
RL_HandleDisconnection_Gsm ==
    /\ rlPc = "hd_gsm"
    /\ gsmReady' = FALSE
    /\ rlPc' = "hd_go"
    /\ UNCHANGED <<sessionVars, envVars, gsmWaiters, chanBuf,
                   supVars, pwPc, callerVars, ghostVars>>
    /\ UNCHANGED offSession

\* handleDisconnection, lines 279-281, a.gsmMu released: go
\* a.attemptReconnection() if the unlocked read of a.shouldReconnect gives
\* true.
RL_HandleDisconnection_Go ==
    /\ rlPc = "hd_go"
    /\ \E seen \in RacyShouldReconnect :
          IF seen
          THEN /\ \E s \in Sups : supPc[s] = "none"
               /\ supPc' = [supPc EXCEPT ![FreeSup] = "gate"]
          ELSE UNCHANGED supPc
    /\ rlPc' = LoopTop
    /\ UNCHANGED <<sessionVars, envVars, gateVars,
                   supPort, reconnecting, pwPc, callerVars, ghostVars>>
    /\ UNCHANGED offSession

readLoop ==
    \/ RL_Stop
    \/ RL_ReadIdle
    \/ RL_Read
    \/ \E line \in Lines : RL_Dispatch(line)
    \/ RL_Save
    \/ RL_ReadFatal
    \/ RL_HandleDisconnection_Lock
    \/ RL_HandleDisconnection_Gsm
    \/ RL_HandleDisconnection_Go

\* ------------------------------------------------- reconnection supervisor
\* The single-flight test of attemptReconnection (line 287).
GateBusyBug(flag) == FALSE
GateBusy(flag) == flag

\* attemptReconnection, lines 286-292, under a.reconnectMu: return if a run
\* is in progress, else mark one in progress.
Sup_Gate(s) ==
    /\ supPc[s] = "gate"
    /\ IF GateBusy(reconnecting)
       THEN supPc' = [supPc EXCEPT ![s] = "none"] /\ UNCHANGED reconnecting
       ELSE supPc' = [supPc EXCEPT ![s] = "loop"] /\ reconnecting' = TRUE
    /\ UNCHANGED <<sessionVars, envVars, gateVars, rlVars, supPort, pwPc,
                   callerVars, ghostVars>>
    /\ UNCHANGED offSession

\* Whether the loop goes on after its two shutdown tests (lines 303-315).
LoopContinuesBug(seenShould, stop) == TRUE
LoopContinues(seenShould, stop) == seenShould /\ ~stop

\* Top of the retry loop: the unlocked read of a.shouldReconnect, then the
\* non-blocking select on a.stopChan.  On return the deferred function
\* (lines 294-298) clears a.reconnecting under a.reconnectMu.
Sup_Loop(s) ==
    /\ supPc[s] = "loop"
    /\ \E seen \in RacyShouldReconnect :
          IF LoopContinues(seen, stopped)
          THEN supPc' = [supPc EXCEPT ![s] = "open"] /\ UNCHANGED reconnecting
          ELSE supPc' = [supPc EXCEPT ![s] = "none"] /\ reconnecting' = FALSE
    /\ UNCHANGED <<sessionVars, envVars, gateVars, rlVars, supPort, pwPc,
                   callerVars, ghostVars>>
    /\ UNCHANGED offSession

\* Whether the attempt runs DiscoverArduino (line 324).
UsesDiscovery(mode) == mode = deviceModeAuto \/ mode = ""

\* DiscoverArduino finds the device only if it is there, and may miss it.
DiscoverOutcomes == IF devicePresent THEN {"found", "notfound"} ELSE {"notfound"}
\* serial.Open can succeed if the device node exists (and, in the model,
\* while a handle is left to give out).
OpenOutcomes ==
    IF devicePresent /\ \E h \in Handles : hstat[h] = "unopened"
    THEN {"ok", "failed"} ELSE {"failed"}

\* The handle a successful serial.Open returns.
NewHandle == CHOOSE h \in Handles : hstat[h] = "unopened" /\ \A g \in Handles : hstat[g] = "unopened" => h <= g

\* Lines 320-342 up to the Open in reconnect: pick the target, open it.
\* A failed discovery or a failed Open leads, after the sleep of
\* reconnectInterval, to the next iteration.
Sup_Open(s) ==
    /\ supPc[s] = "open"
    /\ \E d \in DiscoverOutcomes, o \in OpenOutcomes :
          IF (UsesDiscovery(deviceMode) /\ d = "notfound") \/ o = "failed"
          THEN /\ supPc' = [supPc EXCEPT ![s] = "loop"]
               /\ UNCHANGED <<hstat, supPort>>
          ELSE /\ hstat' = [hstat EXCEPT ![NewHandle] = "open"]
               /\ supPort' = [supPort EXCEPT ![s] = NewHandle]
               /\ supPc' = [supPc EXCEPT ![s] = "swap"]
    /\ UNCHANGED <<connected, port, mu, stopped, shouldReconnect, envVars,
                   gateVars, rlVars, reconnecting, pwPc, callerVars, ghostVars>>
    /\ UNCHANGED offSession

\* reconnect, lines 371-378, under a.mu: close the old port, install the
\* new one, mark the session connected.
InstalledPortBug(s) == port
InstalledPort(s) == supPort[s]

Sup_Swap(s) ==
    /\ supPc[s] = "swap"
    /\ LockFree(mu)
    /\ hstat' = ClosedStat(port)
    /\ port' = InstalledPort(s)
    /\ connected' = TRUE
    /\ everConn' = [c \in Callers |-> IF audit /\ InSend(c) THEN TRUE ELSE everConn[c]]
    /\ supPc' = [supPc EXCEPT ![s] = "warmup"]
    /\ supPort' = [supPort EXCEPT ![s] = 0]
    /\ UNCHANGED <<mu, stopped, shouldReconnect, envVars, gateVars, rlVars,
                   reconnecting, pwPc, callerVars, sawConn, regd, closeDone>>
    /\ UNCHANGED offSession

\* reconnect's warm-up sleep is over: reconnect and the loop return, and
\* the deferred function (lines 294-298) clears a.reconnecting.
Sup_WarmupDone(s) ==
    /\ supPc[s] = "warmup"
    /\ supPc' = [supPc EXCEPT ![s] = "none"]
    /\ reconnecting' = FALSE
    /\ UNCHANGED <<sessionVars, envVars, gateVars, rlVars, supPort, pwPc,
                   callerVars, ghostVars>>
    /\ UNCHANGED offSession

attemptReconnection ==
    \E s \in Sups :
        \/ Sup_Gate(s)
        \/ Sup_Loop(s)
        \/ Sup_Open(s)
        \/ Sup_Swap(s)
        \/ Sup_WarmupDone(s)

\* ------------------------------------------------------ outbound commands
\* One port.Write call, as recorded for the caller.
WriteRec(cmd, h) == [cmd |-> cmd, ok |-> WriteOk(h)]

\* Wakeup(), under a.mu: the returned error and the Write calls made.
WakeupResultBug(conn, h) ==
    [err |-> IF WriteOk(h) THEN Nil
             ELSE Wrap("failed to send wakeup command", ErrPortWrite),
     w |-> <<WriteRec("wakeup", h)>>]
WakeupResult(conn, h) ==
    IF ~conn THEN [err |-> ErrNotConnected, w |-> <<>>]
    ELSE [err |-> IF WriteOk(h) THEN Nil
                  ELSE Wrap("failed to send wakeup command", ErrPortWrite),
          w |-> <<WriteRec("wakeup", h)>>]

\* Ping(), under a.mu: there is no test of a.connected.
PingResult(conn, h) ==
    [err |-> IF WriteOk(h) THEN Nil
             ELSE Wrap("failed to write to serial port", ErrPortWrite),
     w |-> <<WriteRec("ping", h)>>]

\* SendSMS, lines 567-592, under a.mu.
SendWriteResultBug(conn, h) ==
    IF ~conn THEN [err |-> ErrNotConnected, w |-> <<>>]
    ELSE [err |-> Nil, w |-> <<WriteRec("send", h)>>]
SendWriteResult(conn, h) ==
    IF ~conn THEN [err |-> ErrNotConnected, w |-> <<>>]
    ELSE [err |-> IF WriteOk(h) THEN Nil
                  ELSE Wrap("failed to write to serial port", ErrPortWrite),
          w |-> <<WriteRec("send", h)>>]

\* --------------------------------------------------------- periodicWakeup
\* select: a.stopChan is closed.
PW_Stop ==
    /\ pwPc = "select"
    /\ stopped
    /\ pwPc' = "done"
    /\ UNCHANGED <<sessionVars, envVars, gateVars, rlVars, supVars, callerVars,
                   ghostVars>>
    /\ UNCHANGED offSession

\* select: the hourly ticker fires; if IsGSMReady is false, Wakeup() runs
\* under a.mu and its error is only logged.
PW_Tick ==
    /\ pwPc = "select"
    /\ ~gsmReady
    /\ LockFree(mu)
    /\ UNCHANGED vars

periodicWakeup == PW_Stop \/ PW_Tick

\* ----------------------------------------------------------------- callers
\* Caller c enters a public method.  The state a SendSMS call found is
\* kept for the call.
Enter(c, op, next) ==
    /\ pc[c] \in {"idle", "done"}
    /\ calls < MaxCalls
    /\ calls' = calls + 1
    /\ pc' = [pc EXCEPT ![c] = next]
    /\ callOp' = [callOp EXCEPT ![c] = op]
    /\ atCall' = [atCall EXCEPT ![c] =
                     IF audit /\ op = "send"
                     THEN [connected |-> connected, ready |-> gsmReady]
                     ELSE [connected |-> FALSE, ready |-> FALSE]]
    /\ everConn' = [everConn EXCEPT ![c] = audit /\ op = "send" /\ connected]
    /\ sawConn' = [sawConn EXCEPT ![c] = FALSE]
    /\ regd' = [regd EXCEPT ![c] = FALSE]
    /\ waitRes' = [waitRes EXCEPT ![c] = FALSE]

\* SendSMS(number, content) is called: EnsureGSMReady, line 481, tests
\* IsGSMReady().
Call_SendSMS(c) ==
    /\ Enter(c, "send", IF gsmReady THEN "send_lock" ELSE "wakeup")
    /\ res' = [res EXCEPT ![c] = Nil]
    /\ writes' = [writes EXCEPT ![c] = <<>>]
    /\ UNCHANGED <<sessionVars, envVars, gateVars, rlVars, supVars, pwPc, closeDone>>
    /\ UNCHANGED offSession

\* WaitForGSM(timeout) is called.
Call_WaitForGSM(c) ==
    /\ Enter(c, "wait", "wait_check")
    /\ res' = [res EXCEPT ![c] = Nil]
    /\ writes' = [writes EXCEPT ![c] = <<>>]
    /\ UNCHANGED <<sessionVars, envVars, gateVars, rlVars, supVars, pwPc, closeDone>>
    /\ UNCHANGED offSession

\* Ping() runs, under a.mu.
Call_Ping(c) ==
    /\ LockFree(mu)
    /\ Enter(c, "ping", "done")
    /\ res' = [res EXCEPT ![c] = PingResult(connected, port).err]
    /\ writes' = [writes EXCEPT ![c] = PingResult(connected, port).w]
    /\ UNCHANGED <<sessionVars, envVars, gateVars, rlVars, supVars, pwPc, closeDone>>
    /\ UNCHANGED offSession

\* Wakeup() runs, under a.mu.
Call_Wakeup(c) ==
    /\ LockFree(mu)
    /\ Enter(c, "wakeup", "done")
    /\ res' = [res EXCEPT ![c] = WakeupResult(connected, port).err]
    /\ writes' = [writes EXCEPT ![c] = WakeupResult(connected, port).w]
    /\ UNCHANGED <<sessionVars, envVars, gateVars, rlVars, supVars, pwPc, closeDone>>
    /\ UNCHANGED offSession

\* Whether closing a.stopChan panics when it was closed before (lines
\* 635-637: the close runs inside a.stopOnce.Do, at most once).
ErrPanic == <<"panic: close of closed channel">>
SignalPanicsBug(wasStopped) == wasStopped
SignalPanics(wasStopped) == FALSE

\* The value Close assigns to a.connected (line 632).
ConnectedAfterCloseBug == connected
ConnectedAfterClose == FALSE

\* Close() runs, under a.mu.
Call_Close(c) ==
    /\ LockFree(mu)
    /\ Enter(c, "close", "done")
    /\ shouldReconnect' = FALSE
    /\ connected' = ConnectedAfterClose
    /\ stopped' = TRUE
    /\ IF SignalPanics(stopped)
       THEN /\ res' = [res EXCEPT ![c] = ErrPanic]
            /\ UNCHANGED hstat
       ELSE /\ hstat' = ClosedStat(port)
            /\ \E e \in CloseErrs(port) : res' = [res EXCEPT ![c] = e]
    /\ writes' = [writes EXCEPT ![c] = <<>>]
    /\ closeDone' = TRUE
    /\ UNCHANGED <<port, mu, envVars, gateVars, rlVars, supVars, pwPc>>
    /\ UNCHANGED offSession

\* EnsureGSMReady, lines 485-487: Wakeup(); its error ends SendSMS.
Ensure_Wakeup(c) ==
    /\ pc[c] = "wakeup"
    /\ LockFree(mu)
    /\ LET r == WakeupResult(connected, port) IN
         /\ writes' = [writes EXCEPT ![c] = @ \o r.w]
         /\ IF r.err # Nil
            THEN /\ res' = [res EXCEPT ![c] =
                               Wrap("GSM not ready", Wrap("failed to wake GSM", r.err))]
                 /\ pc' = [pc EXCEPT ![c] = "done"]
            ELSE /\ pc' = [pc EXCEPT ![c] = "wait_check"]
                 /\ UNCHANGED res
    /\ UNCHANGED <<sessionVars, envVars, gateVars, rlVars, supVars, pwPc, callOp,
                   calls, waitRes, atCall, ghostVars>>
    /\ UNCHANGED offSession

\* What the caller of WaitForGSM does with its result r: SendSMS goes on to
\* its write or fails, a direct call returns r.
AfterWait(c, r) ==
    IF callOp[c] = "send"
    THEN /\ pc' = [pc EXCEPT ![c] = IF r THEN "send_lock" ELSE "done"]
         /\ res' = [res EXCEPT ![c] =
                       IF r THEN Nil
                       ELSE Wrap("GSM not ready", <<"GSM did not become ready within 30s">>)]
         /\ UNCHANGED waitRes
    ELSE /\ pc' = [pc EXCEPT ![c] = "done"]
         /\ waitRes' = [waitRes EXCEPT ![c] = r]
         /\ UNCHANGED res

\* Whether WaitForGSM returns at once (line 444).
AlreadyReadyBug(flag) == FALSE
AlreadyReady(flag) == flag

\* WaitForGSM, lines 443-451, under a.gsmMu: return true if ready, else make
\* a channel and append it to the waiters.
Wait_Register(c) ==
    /\ pc[c] = "wait_check"
    /\ IF AlreadyReady(gsmReady)
       THEN /\ AfterWait(c, TRUE)
            /\ UNCHANGED <<gateVars, regd>>
       ELSE /\ gsmWaiters' = Append(gsmWaiters, c)
            /\ regd' = [regd EXCEPT ![c] = TRUE]
            /\ pc' = [pc EXCEPT ![c] = "waiting"]
            /\ UNCHANGED <<gsmReady, chanBuf, res, waitRes>>
    /\ UNCHANGED <<sessionVars, envVars, rlVars, supVars, pwPc, callOp, calls,
                   writes, atCall, everConn, sawConn, closeDone>>
    /\ UNCHANGED offSession

\* The value WaitForGSM returns when the timer fires (line 457).
TimeoutResultBug == TRUE
TimeoutResult == FALSE

\* Whether the timer of time.After(timeout) fires (line 456): it does,
\* whatever happens to the session meanwhile.
TimerFiresBug(stop, conn) == ~stop /\ conn
TimerFires(stop, conn) == TRUE

\* a.gsmWaiters once caller c has left WaitForGSM: its channel stays where
\* it is, under the name Abandoned.
Leave(ws, c) == [i \in 1..Len(ws) |-> IF ws[i] = c THEN Abandoned ELSE ws[i]]

\* WaitForGSM, select: a notification is received from the channel.
Wait_Receive(c) ==
    /\ pc[c] = "waiting"
    /\ chanBuf[c] > 0
    /\ chanBuf' = [chanBuf EXCEPT ![c] = 0]
    /\ gsmWaiters' = Leave(gsmWaiters, c)
    /\ AfterWait(c, TRUE)
    /\ UNCHANGED <<sessionVars, envVars, gsmReady, rlVars, supVars, pwPc, callOp,
                   calls, writes, atCall, ghostVars>>
    /\ UNCHANGED offSession

\* WaitForGSM, select: the timer fires.
Wait_Timeout(c) ==
    /\ pc[c] = "waiting"
    /\ TimerFires(stopped, connected)
    /\ chanBuf' = [chanBuf EXCEPT ![c] = 0, ![Abandoned] = @ + chanBuf[c]]
    /\ gsmWaiters' = Leave(gsmWaiters, c)
    /\ AfterWait(c, TimeoutResult)
    /\ UNCHANGED <<sessionVars, envVars, gsmReady, rlVars, supVars, pwPc, callOp,
                   calls, writes, atCall, ghostVars>>
    /\ UNCHANGED offSession

\* SendSMS, lines 567-592: take a.mu, test a.connected, write the command.
\* After a successful write the caller keeps a.mu for the 100 ms sleep.
Send_Write(c) ==
    /\ pc[c] = "send_lock"
    /\ LockFree(mu)
    /\ LET r == SendWriteResult(connected, port) IN
         /\ writes' = [writes EXCEPT ![c] = @ \o r.w]
         /\ IF r.err # Nil
            THEN /\ res' = [res EXCEPT ![c] = r.err]
                 /\ pc' = [pc EXCEPT ![c] = "done"]
                 /\ UNCHANGED mu
            ELSE /\ pc' = [pc EXCEPT ![c] = "send_sleep"]
                 /\ mu' = c
                 /\ UNCHANGED res
    /\ UNCHANGED <<connected, port, hstat, stopped, shouldReconnect, envVars,
                   gateVars, rlVars, supVars, pwPc, callOp, calls, waitRes,
                   atCall, ghostVars>>
    /\ UNCHANGED offSession

\* SendSMS, lines 597-599: the sleep is over, a.mu is released, nil returned.
Send_SleepDone(c) ==
    /\ pc[c] = "send_sleep"
    /\ mu' = 0
    /\ pc' = [pc EXCEPT ![c] = "done"]
    /\ UNCHANGED <<connected, port, hstat, stopped, shouldReconnect, envVars,
                   gateVars, rlVars, supVars, pwPc, callOp, calls, res, waitRes,
                   writes, atCall, ghostVars>>
    /\ UNCHANGED offSession

caller ==
    \E c \in Callers :
        \/ Call_SendSMS(c)
        \/ Call_WaitForGSM(c)
        \/ Call_Ping(c)
        \/ Call_Wakeup(c)
        \/ Call_Close(c)
        \/ Ensure_Wakeup(c)
        \/ Wait_Register(c)
        \/ Wait_Receive(c)
        \/ Wait_Timeout(c)
        \/ Send_Write(c)
        \/ Send_SleepDone(c)

\* IsConnected(), under a.mu.
IsConnected == connected

\* IsGSMReady(), under a.gsmMu.
IsGSMReady == gsmReady

\* -------------------------------------------------------- DiscoverArduino
\* A string is the sequence of its characters.
DevTty == <<"/", "d", "e", "v", "/", "t", "t", "y">>
DevCu == <<"/", "d", "e", "v", "/", "c", "u", ".">>
\* arduinoPatterns, lines 75-81.
arduinoPatterns ==
    << DevTty \o <<"A", "C", "M">>,
       DevTty \o <<"U", "S", "B">>,
       <<"C", "O", "M">>,
       DevCu \o <<"u", "s", "b">>,
       DevTty \o <<".", "u", "s", "b">> >>

\* Port names that serial.GetPortsList may return.
TtyUSB0 == DevTty \o <<"U", "S", "B", "0">>
TtyACM0 == DevTty \o <<"A", "C", "M", "0">>
TtyS0 == DevTty \o <<"S", "0">>
CuBluetooth == DevCu \o <<"B", "T">>
Com3 == <<"C", "O", "M", "3">>
PortNames == {TtyUSB0, TtyACM0, TtyS0, CuBluetooth, Com3}

\* Longest list of ports GetPortsList returns in the model.
MaxPorts == 3
\* The lists of distinct port names of length n.
PortLists(n) ==
    {l \in [1..n -> PortNames] : \A i, j \in 1..n : i # j => l[i] # l[j]}

\* strings.Contains(str, substr).
Contains(str, substr) ==
    \E k \in 1..(Len(str) - Len(substr) + 1) :
        \A m \in 1..Len(substr) : str[k + m - 1] = substr[m]

\* How a probe of a port that does not answer fails: serial.Open fails
\* ("open"), port.Write fails ("write"), or the Read returns nothing within
\* the two seconds ("none").
ProbeFaults == {"none", "open", "write"}

\* Whether the Read of the probe returned data without an error (lines
\* 137-140).
ReadRepliedBug(portName) == TRUE
ReadReplied(portName) == portName \in dReplies

\* The port probed when no port matching a pattern answered (line 100).
FallbackPortBug(ports) == ports[Len(ports)]
FallbackPort(ports) == ports[1]

\* The errors DiscoverArduino returns.
ErrListPorts == <<"failed to list serial ports", "enumeration failed">>
ErrNoPorts == <<"no serial ports found">>
ErrNoDevice == <<"no Arduino device found on available ports">>

\* What a DiscoverArduino call meets: any list of ports, any set of
\* answering ports among them, any way of failing for the others.
DiscoverInputs ==
    /\ dPorts \in UNION {PortLists(n) : n \in 0..MaxPorts}
    /\ dListErr \in BOOLEAN
    /\ dReplies \in SUBSET Range(dPorts)
    /\ dFault \in {f \in [PortNames -> ProbeFaults] :
                      \A p \in PortNames :
                          (p \in dReplies \/ p \notin Range(dPorts)) => f[p] = "none"}
    /\ dPort = 0
    /\ dPattern = 0
    /\ dProbes = <<>>
    /\ dRes = [port |-> <<>>, err |-> Nil]
    /\ tPc = "none"
    /\ dHandles = <<>>

\* A DiscoverArduino call starts.
DiscoverInit ==
    /\ ConnInit
    /\ dPc = "list"
    /\ DiscoverInputs
    /\ WireIdle
    /\ StartIdle
    /\ CodecIdle
    /\ RxIdle

\* Lines 65-72: list the ports; fail on an error or an empty list.
D_List ==
    /\ dPc = "list"
    /\ IF dListErr
       THEN /\ dRes' = [port |-> <<>>, err |-> ErrListPorts]
            /\ dPc' = "done"
            /\ UNCHANGED <<dPort, dPattern>>
       ELSE IF Len(dPorts) = 0
       THEN /\ dRes' = [port |-> <<>>, err |-> ErrNoPorts]
            /\ dPc' = "done"
            /\ UNCHANGED <<dPort, dPattern>>
       ELSE /\ dPc' = "scan"
            /\ dPort' = 1
            /\ dPattern' = 1
            /\ UNCHANGED dRes
    /\ UNCHANGED <<dPorts, dListErr, dReplies, dProbes, dFault, tPc, dHandles, offDiscover>>

\* Lines 84-95, one pass of the inner loop: test the port against the
\* pattern and call testSerialPort on a match.
D_Scan ==
    /\ dPc = "scan"
    /\ tPc = "none"
    /\ dPort <= Len(dPorts)
    /\ LET name == dPorts[dPort]
           match == Contains(name, arduinoPatterns[dPattern])
       IN IF match
          THEN /\ dProbes' = Append(dProbes, [port |-> name, at |-> "scan"])
               /\ tPc' = "open"
               /\ UNCHANGED <<dPort, dPattern>>
          ELSE /\ IF dPattern < Len(arduinoPatterns)
                  THEN dPattern' = dPattern + 1 /\ UNCHANGED dPort
                  ELSE dPattern' = 1 /\ dPort' = dPort + 1
               /\ UNCHANGED <<dProbes, tPc>>
    /\ UNCHANGED <<dPorts, dListErr, dReplies, dRes, dPc, dFault, dHandles, offDiscover>>

\* Lines 97-100: the loops are over; call testSerialPort on the first port
\* of the list.
D_Fallback ==
    /\ dPc = "scan"
    /\ tPc = "none"
    /\ dPort > Len(dPorts)
    /\ dProbes' = Append(dProbes, [port |-> FallbackPort(dPorts), at |-> "fallback"])
    /\ tPc' = "open"
    /\ UNCHANGED <<dPorts, dListErr, dReplies, dPort, dPattern, dRes, dPc, dFault,
                   dHandles, offDiscover>>

\* The running probe: its port and the place it was called from.
Probe == dProbes[Len(dProbes)]

\* testSerialPort returns r to DiscoverArduino: in the loops (lines 90-92)
\* the port is returned or the inner loop goes on; in the fallback (lines
\* 100-105) the port or the error is returned.
D_Return(r) ==
    /\ tPc' = "none"
    /\ IF Probe.at = "scan"
       THEN IF r
            THEN /\ dRes' = [port |-> Probe.port, err |-> Nil]
                 /\ dPc' = "done"
                 /\ UNCHANGED <<dPort, dPattern>>
            ELSE /\ IF dPattern < Len(arduinoPatterns)
                    THEN dPattern' = dPattern + 1 /\ UNCHANGED dPort
                    ELSE dPattern' = 1 /\ dPort' = dPort + 1
                 /\ UNCHANGED <<dRes, dPc>>
       ELSE /\ dRes' = IF r THEN [port |-> Probe.port, err |-> Nil]
                        ELSE [port |-> <<>>, err |-> ErrNoDevice]
            /\ dPc' = "done"
            /\ UNCHANGED <<dPort, dPattern>>

\* The deferred port.Close() of testSerialPort (line 121), run on every
\* return that follows the Open: the handle opened last is closed.
DeferredCloseBug(hs) == hs
DeferredClose(hs) == [hs EXCEPT ![Len(hs)] = "closed"]

\* testSerialPort, lines 117-121: serial.Open; false if it fails.
T_Open ==
    /\ tPc = "open"
    /\ IF dFault[Probe.port] = "open"
       THEN D_Return(FALSE) /\ UNCHANGED dHandles
       ELSE /\ dHandles' = Append(dHandles, "open")
            /\ tPc' = "write"
            /\ UNCHANGED <<dPort, dPattern, dRes, dPc>>
    /\ UNCHANGED <<dPorts, dListErr, dReplies, dProbes, dFault, offDiscover>>

\* testSerialPort, lines 124-133: the half-second sleep, then the Write of
\* the ping; false if it fails.
T_Write ==
    /\ tPc = "write"
    /\ IF dFault[Probe.port] = "write"
       THEN D_Return(FALSE) /\ dHandles' = DeferredClose(dHandles)
       ELSE /\ tPc' = "read"
            /\ UNCHANGED <<dPort, dPattern, dRes, dPc, dHandles>>
    /\ UNCHANGED <<dPorts, dListErr, dReplies, dProbes, dFault, offDiscover>>

\* testSerialPort, lines 136-143: the Read; true if it returned data.
T_Read ==
    /\ tPc = "read"
    /\ D_Return(ReadReplied(Probe.port))
    /\ dHandles' = DeferredClose(dHandles)
    /\ UNCHANGED <<dPorts, dListErr, dReplies, dProbes, dFault, offDiscover>>

testSerialPort == T_Open \/ T_Write \/ T_Read

DiscoverArduino == D_List \/ D_Scan \/ D_Fallback \/ testSerialPort

DiscoverSpec == DiscoverInit /\ [][DiscoverArduino]_vars

\* ------------------------------------------------------------ main: startup
\* Values of DEVICE_MODE: unset, "auto", "mock", or the path of a port.
SelAuto == <<"a", "u", "t", "o">>
SelMock == <<"m", "o", "c", "k">>
EnvValues == {<<>>, SelAuto, SelMock, TtyUSB0}

\* GetDeviceMode(), lines 697-703: an unset variable means "auto".
GetDeviceModeBug(env) == env
GetDeviceMode(env) == IF env = <<>> THEN SelAuto ELSE env

\* NewMockSerialConnection(port), and the connection NewArduinoConnection
\* returns: its mode is deviceModeAuto whatever main was told (line 149).
MockConn(portName) == [kind |-> "mock", port |-> portName, mode |-> ""]
RealConn(portName) == [kind |-> "real", port |-> portName, mode |-> deviceModeAuto]

\* main starts with any value of DEVICE_MODE; the session it may build is
\* the one NewArduinoConnection makes.
StartInit ==
    /\ ConnInit
    /\ deviceMode = deviceModeAuto
    /\ dPc = "idle"
    /\ DiscoverInputs
    /\ WireIdle
    /\ CodecIdle
    /\ RxIdle
    /\ sPc = "start"
    /\ sEnv \in EnvValues
    /\ sPortName = <<>>
    /\ sOpened = "none"
    /\ sCreated = <<>>
    /\ sTarget = NoTarget

\* main, lines 68-93: "mock" makes the mock connection, "auto" calls
\* DiscoverArduino, any other value is the port to open.
M_Start ==
    /\ sPc = "start"
    /\ LET mode == GetDeviceMode(sEnv)
       IN IF mode = SelMock
          THEN /\ sCreated' = Append(sCreated, MockConn(TtyACM0))
               /\ sPc' = "done"
               /\ UNCHANGED <<sPortName, dPc>>
          ELSE IF mode = SelAuto
          THEN /\ dPc' = "list"
               /\ sPc' = "discover"
               /\ UNCHANGED <<sPortName, sCreated>>
          ELSE /\ sPortName' = mode
               /\ sPc' = "open"
               /\ UNCHANGED <<sCreated, dPc>>
    /\ UNCHANGED <<sEnv, sOpened, sTarget, offStart>>
    /\ UNCHANGED <<dPorts, dListErr, dReplies, dPort, dPattern, dProbes, dRes,
                   dFault, tPc, dHandles>>

\* main, lines 83-90: DiscoverArduino has returned; on an error the mock
\* connection is made, else the port is the one to open.
M_Discovered ==
    /\ sPc = "discover"
    /\ dPc = "done"
    /\ IF dRes.err # Nil
       THEN /\ sCreated' = Append(sCreated, MockConn(TtyACM0))
            /\ UNCHANGED sPortName
       ELSE /\ sPortName' = dRes.port
            /\ UNCHANGED sCreated
    /\ sPc' = "open"
    /\ UNCHANGED <<sEnv, sOpened, sTarget, offStart, discVars>>

\* main, lines 95-105: if there is a port to open, NewArduinoConnection; the
\* mock connection is made if it fails.
M_Open ==
    /\ sPc = "open"
    /\ IF sPortName = <<>>
       THEN UNCHANGED <<sOpened, sCreated>>
       ELSE \E ok \in BOOLEAN :
               /\ sOpened' = IF ok THEN "ok" ELSE "failed"
               /\ sCreated' = Append(sCreated, IF ok THEN RealConn(sPortName)
                                                ELSE MockConn(sPortName))
    /\ sPc' = "done"
    /\ UNCHANGED <<sEnv, sPortName, sTarget, offStart, discVars>>

\* attemptReconnection, lines 320-335, in the session main has built, once
\* its device is gone: the target of an attempt is what DiscoverArduino
\* returns if the session's deviceMode is "auto" or empty, else a.portName.
\* (The mock connection has no supervisor.)
M_Reconnect ==
    /\ sPc = "done"
    /\ sCreated # <<>>
    /\ LET conn == sCreated[Len(sCreated)]
       IN /\ conn.kind = "real"
          /\ sTarget' = IF UsesDiscovery(conn.mode)
                        THEN [discovery |-> TRUE, port |-> <<>>]
                        ELSE [discovery |-> FALSE, port |-> conn.port]
    /\ sPc' = "reconnecting"
    /\ UNCHANGED <<sEnv, sPortName, sOpened, sCreated, offStart, discVars>>

StartNext == M_Start \/ M_Discovered \/ M_Open \/ M_Reconnect \/ DiscoverArduino

StartSpec == StartInit /\ [][StartNext]_vars

\* ------------------------------------------------- send command on the wire
\* A string is the sequence of its characters; a command may contain
\* letters, double quotes and backslashes.
Quote == "\""
Backslash == "\\"
Newline == "\n"
CarriageReturn == "\r"
WireChars == {"a", Quote, Backslash}

\* strings.TrimSpace: the white space at both ends is cut.
IsSpace(ch) == ch \in {" ", "\t", CarriageReturn, Newline}
RECURSIVE TrimLeft(_)
TrimLeft(str) ==
    IF str # <<>> /\ IsSpace(Head(str)) THEN TrimLeft(Tail(str)) ELSE str
RECURSIVE TrimRight(_)
TrimRight(str) ==
    IF str # <<>> /\ IsSpace(str[Len(str)])
    THEN TrimRight(SubSeq(str, 1, Len(str) - 1)) ELSE str
TrimSpace(str) == TrimRight(TrimLeft(str))

\* Longest number and content of a send command in the model.
MaxStrLen == 2
WireStrings == UNION {[1..n -> WireChars] : n \in 0..MaxStrLen}

\* encoding/json's encoding of the characters of a string value: a quote
\* and a backslash get a backslash in front.
RECURSIVE EscapeString(_)
EscapeString(str) ==
    IF str = <<>> THEN <<>>
    ELSE (IF Head(str) \in {Quote, Backslash} THEN <<Backslash, Head(str)>>
          ELSE <<Head(str)>>) \o EscapeString(Tail(str))

\* "key":"value" as json.Marshal writes a string field.
JSONField(key, value) ==
    <<Quote>> \o key \o <<Quote, ":", Quote>> \o EscapeString(value) \o <<Quote>>

KeyCmd == <<"c", "m", "d">>
KeyNumber == <<"n", "u", "m", "b", "e", "r">>
KeyContent == <<"c", "o", "n", "t", "e", "n", "t">>
CmdSend == <<"s", "e", "n", "d">>
CmdPing == <<"p", "i", "n", "g">>
CmdWakeup == <<"w", "a", "k", "e", "u", "p">>
CmdStatus == <<"s", "t", "a", "t", "u", "s">>

\* json.Marshal(SerialCommand{Cmd, Number, Content}): the fields in the
\* order of the struct, number and content left out when empty (omitempty).
MarshalCommand(cmd, number, content) ==
    <<"{">> \o JSONField(KeyCmd, cmd)
        \o (IF number = <<>> THEN <<>> ELSE <<",">> \o JSONField(KeyNumber, number))
        \o (IF content = <<>> THEN <<>> ELSE <<",">> \o JSONField(KeyContent, content))
        \o <<"}">>

\* SendSMS, lines 574-580.
MarshalSend(number, content) == MarshalCommand(CmdSend, number, content)

\* The line Wakeup writes (line 470), a literal.
WakeupLine ==
    <<"{", Quote>> \o KeyCmd \o <<Quote, ":", Quote>> \o CmdWakeup \o <<Quote, "}", Newline>>

\* Lines that reach the firmware from a serial terminal and not from the
\* server: the status command, a command the firmware does not know, a
\* line without "cmd", a line of white space and an empty line.
TypedLines ==
    {MarshalCommand(CmdStatus, <<>>, <<>>) \o <<CarriageReturn, Newline>>,
     MarshalCommand(<<"a">>, <<>>, <<>>) \o <<Newline>>,
     <<"{", "}", Newline>>,
     <<" ", CarriageReturn, Newline>>,
     <<Newline>>}

\* String::indexOf(sub, from) of the firmware, counting from 1; 0 when sub
\* does not occur at or after from.
IndexOf(str, sub, from) ==
    LET hits == {k \in from..(Len(str) - Len(sub) + 1) :
                    \A m \in 1..Len(sub) : str[k + m - 1] = sub[m]}
    IN IF hits = {} THEN 0 ELSE CHOOSE k \in hits : \A j \in hits : k <= j

\* extractJSONValue(json, key) of the firmware: the characters between
\* "key":" and the next double quote.
extractJSONValue(json, key) ==
    LET searchKey == <<Quote>> \o key \o <<Quote, ":", Quote>>
        startIndex == IndexOf(json, searchKey, 1)
    IN IF startIndex = 0 THEN <<>>
       ELSE LET from == startIndex + Len(searchKey)
                endIndex == IndexOf(json, <<Quote>>, from)
            IN IF endIndex = 0 THEN <<>> ELSE SubSeq(json, from, endIndex - 1)

\* escapeJSON of the firmware: a quote and a backslash get a backslash in
\* front.
RECURSIVE escapeJSON(_)
escapeJSON(str) ==
    IF str = <<>> THEN <<>>
    ELSE (IF Head(str) \in {Quote, Backslash} THEN <<Backslash, Head(str)>>
          ELSE <<Head(str)>>) \o escapeJSON(Tail(str))

\* The errors of the firmware's command handling.
ErrInvalidCommand == <<"Invalid command format">>
ErrUnknownCommand == <<"Unknown command">>
ErrMissingNumber == <<"Missing phone number">>
ErrMissingContent == <<"Missing message content">>
ErrConnectGSM == <<"Failed to connect to GSM network">>
ErrConnectForSend == <<"Failed to connect GSM for sending">>
ErrSendFailed == <<"Failed to send SMS">>

\* The "gsm" field of every line the firmware prints.
GsmField(conn) == IF conn THEN "connected" ELSE "disconnected"

\* The lines the firmware prints: sendResponse (sendError is sendResponse
\* with status "error"), sendInfo and sendGSMState.
sendResponse(status, message, conn) ==
    [status |-> status, event |-> "", message |-> escapeJSON(message),
     gsm |-> GsmField(conn)]
sendError(message, conn) == sendResponse("error", message, conn)
sendInfo(message, conn) == sendResponse("info", message, conn)
sendGSMState(conn) ==
    [status |-> "", event |-> "gsm_state", message |-> <<>>, gsm |-> GsmField(conn)]

\* connectGSM(): the lines it prints when gsmAccess.begin gives GSM_READY
\* (ready) and when it does not; it returns ready and leaves it in
\* gsmConnected.
connectGSM(conn, ready) ==
    <<sendInfo(<<"Connecting to GSM network...">>, conn)>> \o
    (IF ready
     THEN <<sendGSMState(TRUE), sendInfo(<<"Connected to GSM network">>, TRUE)>>
     ELSE <<sendGSMState(FALSE), sendError(ErrConnectGSM, FALSE)>>)

\* What the server writes: SendSMS, Ping, Wakeup; "typed" is a line from a
\* serial terminal.
WireOps == {"send", "ping", "wakeup", "typed"}

\* What the firmware has got so far: nothing.
NothingGot == [number |-> <<>>, content |-> <<>>, err |-> <<>>]

\* A call with any number and content is about to write, or a line is
\* typed; the modem is connected or not.
WireInit ==
    /\ ConnInit
    /\ DiscoverIdle
    /\ StartIdle
    /\ CodecIdle
    /\ RxIdle
    /\ wPc = "marshal"
    /\ wOp \in WireOps
    /\ wNumber \in IF wOp = "send" THEN WireStrings ELSE {<<>>}
    /\ wContent \in IF wOp = "send" THEN WireStrings ELSE {<<>>}
    /\ wLine = <<>>
    /\ wGot = NothingGot
    /\ fGsm \in BOOLEAN
    /\ fOut = <<>>
    /\ fSms = <<>>

\* SendSMS, lines 574-589: marshal the command, append the newline, write.
W_Marshal ==
    /\ wPc = "marshal"
    /\ wOp = "send"
    /\ wLine' = Append(MarshalSend(wNumber, wContent), Newline)
    /\ wPc' = "written"
    /\ UNCHANGED <<wOp, wNumber, wContent, wGot, fGsm, fOut, fSms, offWire>>

\* Ping, lines 607-619: marshal, append the newline, write.
W_Ping ==
    /\ wPc = "marshal"
    /\ wOp = "ping"
    /\ wLine' = Append(MarshalCommand(CmdPing, <<>>, <<>>), Newline)
    /\ wPc' = "written"
    /\ UNCHANGED <<wOp, wNumber, wContent, wGot, fGsm, fOut, fSms, offWire>>

\* Wakeup, line 470.
W_Wakeup ==
    /\ wPc = "marshal"
    /\ wOp = "wakeup"
    /\ wLine' = WakeupLine
    /\ wPc' = "written"
    /\ UNCHANGED <<wOp, wNumber, wContent, wGot, fGsm, fOut, fSms, offWire>>

\* A line arrives from a serial terminal.
W_Typed ==
    /\ wPc = "marshal"
    /\ wOp = "typed"
    /\ wLine' \in TypedLines
    /\ wPc' = "written"
    /\ UNCHANGED <<wOp, wNumber, wContent, wGot, fGsm, fOut, fSms, offWire>>

\* The command the firmware's loop() hands to processCommand: the bytes up
\* to the newline.
Received(line) == SubSeq(line, 1, IndexOf(line, <<Newline>>, 1) - 1)

\* String::trim() of the firmware.
trim(command) == TrimSpace(command)

\* Whether command has "name" in it, quotes included.
Names(command, name) == IndexOf(command, <<Quote>> \o name \o <<Quote>>, 1) # 0

\* processCommand of the firmware, lines 121-154: an empty command is
\* passed over, a command without "cmd" is refused, one with "send" goes to
\* handleSendSMS, "ping", "wakeup" and "status" are answered, any other is
\* refused.  wakeup connects the modem if it is not connected.
F_ProcessCommand ==
    /\ wPc = "written"
    /\ LET command == trim(Received(wLine))
       IN IF command = <<>>
          THEN wPc' = "done" /\ UNCHANGED <<wGot, fGsm, fOut>>
          ELSE IF ~Names(command, KeyCmd)
          THEN /\ wPc' = "done"
               /\ wGot' = [wGot EXCEPT !.err = ErrInvalidCommand]
               /\ fOut' = Append(fOut, sendError(ErrInvalidCommand, fGsm))
               /\ UNCHANGED fGsm
          ELSE IF Names(command, CmdSend)
          THEN wPc' = "send" /\ UNCHANGED <<wGot, fGsm, fOut>>
          ELSE IF Names(command, CmdPing)
          THEN /\ wPc' = "done"
               /\ fOut' = Append(fOut, sendResponse("ok", <<"pong">>, fGsm))
               /\ UNCHANGED <<wGot, fGsm>>
          ELSE IF Names(command, CmdWakeup)
          THEN /\ wPc' = "done"
               /\ IF ~fGsm
                  THEN \E ready \in BOOLEAN :
                          /\ fGsm' = ready
                          /\ fOut' = fOut \o connectGSM(fGsm, ready) \o
                                     <<sendResponse("ok", <<"wakeup acknowledged">>, ready)>>
                  ELSE /\ fOut' = Append(fOut, sendResponse("ok", <<"wakeup acknowledged">>, fGsm))
                       /\ UNCHANGED fGsm
               /\ UNCHANGED wGot
          ELSE IF Names(command, CmdStatus)
          THEN /\ wPc' = "done"
               /\ fOut' = Append(fOut, sendResponse("ok",
                              IF fGsm THEN <<"gsm connected">> ELSE <<"gsm disconnected">>, fGsm))
               /\ UNCHANGED <<wGot, fGsm>>
          ELSE /\ wPc' = "done"
               /\ wGot' = [wGot EXCEPT !.err = ErrUnknownCommand]
               /\ fOut' = Append(fOut, sendError(ErrUnknownCommand, fGsm))
               /\ UNCHANGED fGsm
    /\ UNCHANGED <<wOp, wNumber, wContent, wLine, fSms, offWire>>

\* handleSendSMS of the firmware, lines 156-189: extract the number and the
\* content and refuse the command if one of them is empty; connect the
\* modem if it is not connected and give up if that fails; hand number and
\* content to the modem and report what sms.endSMS() returns (sent).
F_HandleSendSMS ==
    /\ wPc = "send"
    /\ LET number == extractJSONValue(trim(Received(wLine)), KeyNumber)
           content == extractJSONValue(trim(Received(wLine)), KeyContent)
       IN IF number = <<>>
          THEN /\ wGot' = [NothingGot EXCEPT !.err = ErrMissingNumber]
               /\ fOut' = Append(fOut, sendError(ErrMissingNumber, fGsm))
               /\ UNCHANGED <<fGsm, fSms>>
          ELSE IF content = <<>>
          THEN /\ wGot' = [NothingGot EXCEPT !.err = ErrMissingContent]
               /\ fOut' = Append(fOut, sendError(ErrMissingContent, fGsm))
               /\ UNCHANGED <<fGsm, fSms>>
          ELSE \E ready, sent \in BOOLEAN :
                  LET out == IF fGsm THEN <<>> ELSE connectGSM(fGsm, ready)
                      conn == fGsm \/ ready
                  IN IF ~conn
                     THEN /\ wGot' = [number |-> number, content |-> content,
                                      err |-> ErrConnectForSend]
                          /\ fOut' = fOut \o out \o <<sendError(ErrConnectForSend, FALSE)>>
                          /\ fGsm' = FALSE
                          /\ UNCHANGED fSms
                     ELSE /\ fSms' = Append(fSms, [number |-> number, content |-> content])
                          /\ fGsm' = TRUE
                          /\ wGot' = [number |-> number, content |-> content,
                                      err |-> IF sent THEN <<>> ELSE ErrSendFailed]
                          /\ fOut' = fOut \o out \o
                                <<IF sent
                                  THEN sendResponse("ok", <<"SMS sent to ">> \o number, TRUE)
                                  ELSE sendError(ErrSendFailed, TRUE)>>
    /\ wPc' = "done"
    /\ UNCHANGED <<wOp, wNumber, wContent, wLine, offWire>>

WireNext == W_Marshal \/ W_Ping \/ W_Wakeup \/ W_Typed \/ F_ProcessCommand \/ F_HandleSendSMS

WireSpec == WireInit /\ [][WireNext]_vars

\* ------------------------------------------------- readLoop: the line codec
\* The bytes the device sends in the model: a letter, a carriage return
\* (Serial.println ends a line with "\r\n") and the newline.
CodecBytes == {"a", CarriageReturn, Newline}
\* Largest number of bytes the device sends in the model.
MaxWire == 5
ByteStrings == UNION {[1..n -> CodecBytes] : n \in 0..MaxWire}

\* lineBuf after the line that ends at idx was taken from it (line 238).
RestAfterLineBug(buf, idx) == <<>>
RestAfterLine(buf, idx) == SubSeq(buf, idx + 1, Len(buf))

\* The device will send any bytes; readLoop has read nothing.
CodecInit ==
    /\ ConnInit
    /\ DiscoverIdle
    /\ WireIdle
    /\ StartIdle
    /\ RxIdle
    /\ cPc = "read"
    /\ cSent \in ByteStrings
    /\ cChunks = <<>>
    /\ lineBuf = <<>>
    /\ cDispatched = <<>>
    /\ cSwapped = FALSE
    /\ cStale = 0
    /\ cMixed = FALSE

RECURSIVE SumSeq(_)
SumSeq(q) == IF q = <<>> THEN 0 ELSE Head(q) + SumSeq(Tail(q))
\* The number of bytes the Reads have returned so far.
BytesRead == SumSeq(cChunks)

\* Lines 207-229: a Read returns the next n bytes, which are appended to
\* lineBuf.
RL_Chunk(n) ==
    /\ cPc = "read"
    /\ n \in 1..(Len(cSent) - BytesRead)
    /\ lineBuf' = lineBuf \o SubSeq(cSent, BytesRead + 1, BytesRead + n)
    /\ cChunks' = Append(cChunks, n)
    /\ cPc' = "lines"
    /\ UNCHANGED <<cSent, cDispatched, cSwapped, cStale, cMixed, offCodec>>

\* Lines 232-244, one pass of the inner loop: without a newline in lineBuf
\* the loop ends; else the line before it is taken out, trimmed and, unless
\* empty, passed to handleResponse.  The lines made of these bytes are not
\* JSON: handleResponse drops them (line 503).
\* Whether the line before the newline at idx has bytes other than white
\* space both from the lost port and from the port installed.
MixesPorts(buf, stale, idx) ==
    /\ stale < idx
    /\ TrimSpace(SubSeq(buf, 1, stale)) # <<>>
    /\ TrimSpace(SubSeq(buf, stale + 1, idx - 1)) # <<>>

RL_Line ==
    /\ cPc = "lines"
    /\ LET idx == IndexOf(lineBuf, <<Newline>>, 1)
       IN IF idx = 0
          THEN cPc' = "read" /\ UNCHANGED <<lineBuf, cDispatched, cStale, cMixed>>
          ELSE LET line == TrimSpace(SubSeq(lineBuf, 1, idx - 1))
               IN /\ lineBuf' = RestAfterLine(lineBuf, idx)
                  /\ cDispatched' = IF line = <<>> THEN cDispatched
                                     ELSE Append(cDispatched, line)
                  /\ cMixed' = (cMixed \/ MixesPorts(lineBuf, cStale, idx))
                  /\ cStale' = IF cStale >= idx THEN cStale - idx ELSE 0
                  /\ UNCHANGED cPc
    /\ UNCHANGED <<cSent, cChunks, cSwapped, offCodec>>

\* lineBuf once reconnect has installed another port (lines 371-378):
\* lineBuf is a local variable of readLoop, declared before the loop (line
\* 200), and nothing resets it.
BufAfterReconnect(buf) == buf

\* The port is lost and reconnect installs another one between two Reads of
\* readLoop; the bytes not read yet are those the new port delivers.
RL_Reconnected ==
    /\ cPc = "read"
    /\ ~cSwapped
    /\ cSwapped' = TRUE
    /\ lineBuf' = BufAfterReconnect(lineBuf)
    /\ cStale' = Len(BufAfterReconnect(lineBuf))
    /\ UNCHANGED <<cPc, cSent, cChunks, cDispatched, cMixed, offCodec>>

CodecNext == (\E n \in 1..MaxWire : RL_Chunk(n)) \/ RL_Line \/ RL_Reconnected

CodecSpec == CodecInit /\ [][CodecNext]_vars

\* ------------------------------------------- readLoop: what it does to lines
\* A session with or without a database whose read loop gets any lines,
\* while callers wait for the GSM; the histories are kept.
ReadInit ==
    /\ ConnInit
    /\ DiscoverIdle
    /\ WireIdle
    /\ StartIdle
    /\ CodecIdle
    /\ audit = TRUE
    /\ traced = TRUE
    /\ db \in BOOLEAN
    /\ rxLog = <<>>
    /\ saved = <<>>
    /\ rxSeen = <<>>

ReadNext ==
    \/ RL_Read
    \/ \E line \in AllLines : RL_Dispatch(line)
    \/ RL_Save
    \/ \E c \in Callers :
          Call_WaitForGSM(c) \/ Wait_Register(c) \/ Wait_Receive(c) \/ Wait_Timeout(c)

ReadSpec == ReadInit /\ [][ReadNext]_vars

\* ---------------------------------------------------------- specification
Next == Unplug \/ Plug \/ readLoop \/ attemptReconnection \/ periodicWakeup \/ caller

Spec == Init /\ [][Next]_vars

\* Scheduling: a goroutine that can take its next step takes it.  The read
\* loop gets back from Read within the read timeout and from its sleeps, the
\* reconnection goroutines from theirs, time.After fires, and the 100 ms
\* sleep of SendSMS ends.  Nothing is assumed about the device, the frames
\* it sends or the calls that are made.
Fairness ==
    /\ WF_vars(RL_Stop \/ RL_LastOfChunk \/ RL_HandleDisconnection_Lock
                  \/ RL_HandleDisconnection_Gsm \/ RL_HandleDisconnection_Go)
    /\ WF_vars(PW_Stop)
    /\ \A s \in Sups : WF_vars(Sup_Gate(s) \/ Sup_Loop(s) \/ Sup_Open(s)
                                  \/ Sup_Swap(s) \/ Sup_WarmupDone(s))
    /\ \A c \in Callers : WF_vars(Wait_Timeout(c) \/ Send_SleepDone(c))

\* The liveness properties are about where the goroutines and the calls
\* are and not about what the calls found: that is not kept.
FairInit == ConnInit /\ DiscoverIdle /\ WireIdle /\ StartIdle /\ CodecIdle /\ RxOff /\ audit = FALSE

FairSpec == FairInit /\ [][Next]_vars /\ Fairness

\* ------------------------------------------------------------------ claims
\* The Write calls of caller c's call that sent cmd.
Attempted(c, cmd) == \E i \in 1..Len(writes[c]) : writes[c][i].cmd = cmd
Wrote(c, cmd) == \E i \in 1..Len(writes[c]) : writes[c][i] = [cmd |-> cmd, ok |-> TRUE]
Finished(c) == pc[c] = "done"
ErrWaitTimeout == Wrap("GSM not ready", <<"GSM did not become ready within 30s">>)

\* C1: a SendSMS called while connected and not ready has written the wakeup
\* command when it blocks in WaitForGSM, and it attempts its send command,
\* and returns nil, only after readLoop has dispatched a frame with
\* gsm = "connected" during the call; the wakeup is its first write.
C1_SendWaitsForConnectedFrame ==
    \A c \in Callers :
        (callOp[c] = "send" /\ atCall[c].connected /\ ~atCall[c].ready) =>
            /\ pc[c] = "waiting" => Wrote(c, "wakeup")
            /\ Attempted(c, "send") =>
                  sawConn[c] /\ writes[c][1] = [cmd |-> "wakeup", ok |-> TRUE]
            /\ (Finished(c) /\ res[c] = Nil) => sawConn[c] /\ Wrote(c, "send")

\* A SendSMS called while connected and not ready has returned nil.
C1_Witness ==
    \E c \in Callers :
        /\ callOp[c] = "send" /\ atCall[c].connected /\ ~atCall[c].ready
        /\ Finished(c) /\ res[c] = Nil /\ sawConn[c]
        /\ writes[c] = <<[cmd |-> "wakeup", ok |-> TRUE], [cmd |-> "send", ok |-> TRUE]>>

\* C2: a SendSMS called while not ready, during which no frame with
\* gsm = "connected" has been dispatched, has attempted no send command, and
\* if it has returned it has returned a "GSM not ready" error.
C2_NotReadyWithoutConnectedFrame ==
    \A c \in Callers :
        (callOp[c] = "send" /\ ~atCall[c].ready /\ ~sawConn[c]) =>
            /\ ~Attempted(c, "send")
            /\ Finished(c) => IsNotReady(res[c])

\* A SendSMS has waited out the readiness timeout with no connected frame.
C2_Witness ==
    \E c \in Callers :
        /\ callOp[c] = "send" /\ ~atCall[c].ready /\ ~sawConn[c]
        /\ Finished(c) /\ res[c] = ErrWaitTimeout
        /\ writes[c] = <<[cmd |-> "wakeup", ok |-> TRUE]>>

\* C3 as claimed: a SendSMS called while not connected writes nothing and
\* fails with the not-connected error, whatever gsmReady was.
C3_SendWhileDisconnected ==
    \A c \in Callers :
        (callOp[c] = "send" /\ ~atCall[c].connected) =>
            /\ writes[c] = <<>>
            /\ Finished(c) => IsNotConnected(res[c])

\* C3: a SendSMS called while not connected, with the session not connected
\* at any point of the call so far, has written nothing, and if it has
\* returned its error is the not-connected error (wrapped in "GSM not ready"
\* when it was raised by the wakeup), whatever gsmReady was.
C3_SendNeverConnected ==
    \A c \in Callers :
        (callOp[c] = "send" /\ ~everConn[c]) =>
            /\ writes[c] = <<>>
            /\ Finished(c) => IsNotConnected(res[c])

\* Two SendSMS calls that never saw the session connected have failed: one
\* found gsmReady set and failed at its own test of a.connected, the other
\* found it clear and failed in Wakeup.
C3_Witness ==
    \E c, d \in Callers :
        /\ callOp[c] = "send" /\ ~everConn[c] /\ Finished(c) /\ atCall[c].ready
        /\ res[c] = ErrNotConnected /\ writes[c] = <<>>
        /\ callOp[d] = "send" /\ ~everConn[d] /\ Finished(d) /\ ~atCall[d].ready
        /\ res[d] = Wrap("GSM not ready", Wrap("failed to wake GSM", ErrNotConnected))
        /\ writes[d] = <<>>

\* C4: a Ping or a Wakeup made while the session is not connected fails with
\* the not-connected error and makes no Write call.
C4_PingWakeupNotConnected ==
    [][\A c \in Callers :
          ((Call_Ping(c) \/ Call_Wakeup(c)) /\ ~connected) =>
              (IsNotConnected(res'[c]) /\ writes'[c] = <<>>)]_vars

\* C5: once a Close() has returned, IsConnected() is false.
C5_ClosedStaysDisconnected == closeDone => ~IsConnected

\* A reconnection goroutine that can still bring the session back: one that
\* is or may become the run in progress, or the one readLoop is about to
\* start.
RecoveryPending ==
    \/ rlPc \in {"hd_gsm", "hd_go"}
    \/ \E s \in Sups : supPc[s] \in {"gate", "loop", "open", "swap"}

\* A disconnected session with no reconnection pending stays that way: only
\* reconnect sets a.connected, and handleDisconnection starts a goroutine
\* only when it finds a.connected true.
DeadEndStaysDisconnected ==
    [][(~connected /\ ~RecoveryPending) => (~connected' /\ ~RecoveryPending')]_vars

\* C6: while the session is disconnected and not shut down, a reconnection is
\* pending, so that the session is connected again once an Open succeeds.
\* (By DeadEndStaysDisconnected a state where none is pending is never
\* followed by a connected one, however long the device stays available.)
C6_ReconnectionPending == (~connected /\ ~stopped) => RecoveryPending

\* The goroutines that are inside the retry loop of attemptReconnection.
ActiveSups == {s \in Sups : supPc[s] \in {"loop", "open", "swap", "warmup"}}

\* C7: at most one attemptReconnection is past the single-flight test, the
\* flag a.reconnecting is set while it is, and only it holds a handle it
\* opened.
C7_SingleFlight ==
    /\ Cardinality(ActiveSups) <= 1
    /\ ActiveSups # {} => reconnecting
    /\ \A s \in Sups : supPort[s] # 0 => s \in ActiveSups

\* A second trigger waits at the single-flight test while a run is inside
\* the retry loop.
C7_Witness ==
    \E s, t \in Sups : supPc[s] \in {"open", "swap", "warmup"} /\ supPc[t] = "gate"

\* C8: handleDisconnection on a connected session clears a.connected, then
\* a.gsmReady, and starts one goroutine, which becomes a run of the retry
\* loop; on a session that is not connected it changes nothing.
C8_FatalErrorStartsOneRun ==
    [][/\ (RL_HandleDisconnection_Lock /\ connected) => ~connected'
       /\ (RL_HandleDisconnection_Lock /\ ~connected) =>
              UNCHANGED <<sessionVars, gateVars, supVars>>
       /\ RL_HandleDisconnection_Gsm => ~gsmReady'
       /\ (RL_HandleDisconnection_Go /\ ~stopped) =>
              /\ ~gsmReady
              /\ Cardinality({s \in Sups : supPc[s] # "gate" /\ supPc'[s] = "gate"}) = 1
       /\ \A s \in Sups :
              (supPc[s] = "gate" /\ supPc'[s] # "gate") => supPc'[s] = "loop"]_vars

\* C9: a.gsmReady goes from false to true only in the step of readLoop that
\* dispatches a decoded line whose gsm field is "connected".
C9_ReadyOnlyByConnectedFrame ==
    [][(~gsmReady /\ gsmReady') =>
          \E line \in Frames : line.gsm = "connected" /\ RL_Dispatch(line)]_vars

\* The session is ready again on a port installed by a reconnection.
C9_Witness == gsmReady /\ connected /\ port > 0

\* C10: the updateGSMState call that makes the session ready puts one
\* notification into the channel of every waiter registered before it and
\* empties the list; no other step puts a notification into a channel, so a
\* waiter registered after the call gets none from it.
C10_WaitersReleasedByTransition ==
    [][/\ (~gsmReady /\ gsmReady') =>
              /\ \A c \in Callers : c \in Range(gsmWaiters) => chanBuf'[c] = 1
              /\ \A c \in Callers : c \notin Range(gsmWaiters) => chanBuf'[c] = chanBuf[c]
              /\ gsmWaiters' = <<>>
       /\ \A c \in Callers :
              chanBuf'[c] > chanBuf[c] =>
                  (~gsmReady /\ gsmReady' /\ c \in Range(gsmWaiters))]_vars

\* One waiter holds the notification of a ready transition; another one,
\* registered after that transition, holds none.
C10_Witness ==
    \E c, d \in Callers :
        /\ pc[c] = "waiting" /\ chanBuf[c] = 1 /\ c \notin Range(gsmWaiters)
        /\ pc[d] = "waiting" /\ chanBuf[d] = 0 /\ d \in Range(gsmWaiters)

\* The bool a WaitForGSM of caller c returns in this step.
WaitReturns(c) == IF callOp[c] = "send" THEN pc'[c] = "send_lock" ELSE waitRes'[c]

\* C11: a WaitForGSM that finds a.gsmReady set at its test returns true in
\* that step, without appending a channel; and since the test and the append
\* are one section under a.gsmMu, a caller that waits with nothing to
\* receive is in a.gsmWaiters and a.gsmReady is clear.
C11_ReadyCheckAtomic ==
    /\ [](\A c \in Callers :
            (pc[c] = "waiting" /\ chanBuf[c] = 0) =>
                (~gsmReady /\ c \in Range(gsmWaiters)))
    /\ [][\A c \in Callers :
            (pc[c] = "wait_check" /\ pc'[c] # "wait_check" /\ gsmReady) =>
                /\ WaitReturns(c) /\ pc'[c] # "waiting"
                /\ ~regd'[c] /\ gsmWaiters' = gsmWaiters]_vars

\* A direct WaitForGSM call has returned true without registering.
C11_Witness ==
    \E c \in Callers :
        callOp[c] = "wait" /\ Finished(c) /\ waitRes[c] /\ ~regd[c] /\ gsmReady

\* C12: a WaitForGSM that appended its channel returns, whatever happens to
\* the session; it returns true exactly when its select received the
\* notification from the channel, and false when the timer fired.
C12_RegisteredWaitReturns ==
    /\ \A c \in Callers : (pc[c] = "waiting") ~> (pc[c] # "waiting")
    /\ [][\A c \in Callers :
            (pc[c] = "waiting" /\ pc'[c] # "waiting") =>
                /\ WaitReturns(c) <=> (chanBuf[c] > 0 /\ Wait_Receive(c))
                /\ ~WaitReturns(c) <=> Wait_Timeout(c)]_vars

\* A WaitForGSM that registered has returned false on a session that was
\* shut down.
C12_Witness ==
    \E c \in Callers :
        callOp[c] = "wait" /\ regd[c] /\ Finished(c) /\ ~waitRes[c] /\ stopped

\* C13: a channel in a.gsmWaiters belongs to a waiting call and holds no
\* notification; the step that makes the session ready adds one notification
\* to the channel of every waiter, abandoned ones included, and empties the
\* list, so that no channel is notified twice; an update that leaves
\* a.gsmReady as it was, and one that clears it, notify nobody.
C13_NotifiedExactlyOnce ==
    /\ [](\A c \in Callers :
            /\ chanBuf[c] <= 1
            /\ c \in Range(gsmWaiters) => (pc[c] = "waiting" /\ chanBuf[c] = 0))
    /\ [][/\ (~gsmReady /\ gsmReady') =>
              /\ \A c \in Callers :
                    c \in Range(gsmWaiters) => chanBuf'[c] = chanBuf[c] + 1
              /\ chanBuf'[Abandoned] =
                    chanBuf[Abandoned] + Cardinality(AbandonedIn(gsmWaiters))
              /\ gsmWaiters' = <<>>
          /\ ((\E line \in Lines : RL_Dispatch(line)) /\ ~(~gsmReady /\ gsmReady')) =>
              UNCHANGED <<chanBuf, gsmWaiters>>]_vars

\* Two waiters hold the one notification each got from the same transition.
C13_Witness ==
    /\ \A c \in Callers : pc[c] = "waiting" /\ chanBuf[c] = 1
    /\ gsmWaiters = <<>>

\* C14: whenever readLoop has a line to handle, whatever the line, handling
\* it is a step that can be taken: updateGSMState does not wait for the
\* waiters it notifies, abandoned or not.
C14_UpdateNeverBlocks ==
    \A line \in Lines : rlPc = "dispatch" => ENABLED RL_Dispatch(line)

\* A notification has been put into a channel whose WaitForGSM had returned
\* on its timeout, and the session is ready.
C14_Witness == chanBuf[Abandoned] > 0 /\ gsmReady /\ rlPc = "select"

\* C15: a.mu has at most one holder; while SendSMS holds it across its write
\* and sleep no Ping, Wakeup or SendSMS makes a Write call.
C15_WritersExclusive ==
    /\ [](/\ Cardinality({c \in Callers : pc[c] = "send_sleep"}) <= 1
          /\ \A c \in Callers : pc[c] = "send_sleep" <=> mu = c)
    /\ [][(mu # 0) =>
              \A c \in Callers :
                  ~(Call_Ping(c) \/ Call_Wakeup(c) \/ Ensure_Wakeup(c) \/ Send_Write(c))]_vars

\* One SendSMS holds a.mu while another writer is at its a.mu.Lock().
C15_Witness ==
    \E c, d \in Callers :
        c # d /\ mu = c /\ pc[c] = "send_sleep" /\ pc[d] \in {"wakeup", "send_lock"}

\* C16: readLoop never waits for a.mu while a writer holds it: when it is at
\* the a.mu.Lock() of handleDisconnection the lock is free.
C16_ReadLoopNeverWaits == (rlPc = "hd_lock") => LockFree(mu)

\* C17: a.stopChan is closed once, by the first Close, and stays closed; no
\* Close call panics on closing it again.
C17_CloseIdempotent ==
    /\ [](\A c \in Callers : (callOp[c] = "close" /\ Finished(c)) => res[c] # ErrPanic)
    /\ [][/\ (stopped' # stopped) => (~stopped /\ \E c \in Callers : Call_Close(c))
          /\ \A c \in Callers : Call_Close(c) => (stopped' /\ closeDone')]_vars

\* Two callers have each returned from a Close.
C17_Witness ==
    \E c, d \in Callers :
        /\ c # d /\ callOp[c] = "close" /\ callOp[d] = "close"
        /\ Finished(c) /\ Finished(d) /\ stopped

\* C18: once Close has closed a.stopChan, readLoop, periodicWakeup and every
\* attemptReconnection goroutine return.
C18_GoroutinesTerminate ==
    stopped ~> (rlPc = "done" /\ pwPc = "done" /\ \A s \in Sups : supPc[s] = "none")

\* Close has run while a reconnection run was inside its retry loop and the
\* read loop and the periodic wakeup were still running.
C18_Witness ==
    /\ closeDone /\ rlPc # "done" /\ pwPc # "done"
    /\ \E s \in Sups : supPc[s] \in {"loop", "open", "swap"}

\* A port name that matches one of the patterns.
IsCandidate(name) ==
    \E j \in 1..Len(arduinoPatterns) : Contains(name, arduinoPatterns[j])
\* The place of a port in the list.
IdxOf(name) == CHOOSE i \in 1..Len(dPorts) : dPorts[i] = name
\* The places of the candidates that answer, and the first of them.
ReplyingCandidates ==
    {i \in 1..Len(dPorts) : IsCandidate(dPorts[i]) /\ dPorts[i] \in dReplies}
FirstReplying == CHOOSE i \in ReplyingCandidates : \A k \in ReplyingCandidates : i <= k
ScanProbed == {dProbes[a].port : a \in {b \in 1..Len(dProbes) : dProbes[b].at = "scan"}}

\* C19: in its loops DiscoverArduino probes only ports that match a pattern,
\* in the order of the list; a port it returns answered the last probe made;
\* and when some matching port answers it returns the first such port of
\* the list, having probed every matching port before it and nothing else.
C19_DiscoverFirstReplyingCandidate ==
    /\ \A a \in 1..Len(dProbes) :
          dProbes[a].at = "scan" => IsCandidate(dProbes[a].port)
    /\ \A a, b \in 1..Len(dProbes) :
          (a < b /\ dProbes[a].at = "scan" /\ dProbes[b].at = "scan") =>
              IdxOf(dProbes[a].port) <= IdxOf(dProbes[b].port)
    /\ (dPc = "done" /\ dRes.err = Nil) =>
          /\ dRes.port \in dReplies
          /\ dProbes # <<>> /\ dProbes[Len(dProbes)].port = dRes.port
    /\ (dPc = "done" /\ ~dListErr /\ ReplyingCandidates # {}) =>
          /\ dRes = [port |-> dPorts[FirstReplying], err |-> Nil]
          /\ ScanProbed = {dPorts[i] : i \in {k \in 1..FirstReplying : IsCandidate(dPorts[k])}}
          /\ \A a \in 1..Len(dProbes) : dProbes[a].at = "scan"

\* Of /dev/ttyUSB0 and /dev/ttyACM0 only the second answers: both were
\* probed, in this order, and /dev/ttyACM0 was returned.
C19_Witness ==
    /\ dPc = "done"
    /\ dPorts = <<TtyUSB0, TtyACM0>>
    /\ dReplies = {TtyACM0}
    /\ dRes = [port |-> TtyACM0, err |-> Nil]
    /\ dProbes = <<[port |-> TtyUSB0, at |-> "scan"], [port |-> TtyACM0, at |-> "scan"]>>

\* C20: when the ports were listed, DiscoverArduino fails exactly when the
\* list is empty or neither a matching port nor the first port answers, and
\* then with one of its two not-found errors; when no matching port answers
\* and the first port does, it returns the first port, probed last.
C20_DiscoverFallback ==
    (dPc = "done" /\ ~dListErr) =>
        /\ (dRes.err # Nil) <=>
              (Len(dPorts) = 0 \/ (ReplyingCandidates = {} /\ dPorts[1] \notin dReplies))
        /\ dRes.err # Nil => (dRes.err \in {ErrNoPorts, ErrNoDevice} /\ dRes.port = <<>>)
        /\ (Len(dPorts) > 0 /\ ReplyingCandidates = {} /\ dPorts[1] \in dReplies) =>
              /\ dRes = [port |-> dPorts[1], err |-> Nil]
              /\ dProbes[Len(dProbes)] = [port |-> dPorts[1], at |-> "fallback"]

\* A matching port that does not answer was probed, then the first port of
\* the list, which matches no pattern, was probed and returned.
C20_Witness ==
    /\ dPc = "done"
    /\ Len(dPorts) > 1 /\ ~IsCandidate(dPorts[1]) /\ dPorts[1] \in dReplies
    /\ Len(dProbes) > 1 /\ dProbes[1].at = "scan"
    /\ dRes = [port |-> dPorts[1], err |-> Nil]

\* The probe handles that are open.
OpenProbeHandles == {i \in 1..Len(dHandles) : dHandles[i] = "open"}

\* C21: at most one handle opened by a probe is open at any time; none is
\* open when no testSerialPort call runs or when one is about to open its
\* port, so each probe closed its handle before it returned, and none is
\* open when DiscoverArduino has returned.
C21_NoProbeHandleLeak ==
    /\ Cardinality(OpenProbeHandles) <= 1
    /\ tPc \in {"none", "open"} => OpenProbeHandles = {}
    /\ tPc \in {"write", "read"} => OpenProbeHandles = {Len(dHandles)}
    /\ dPc = "done" => (tPc = "none" /\ OpenProbeHandles = {})

\* DiscoverArduino has returned a port after a probe whose Write failed and
\* a probe that got no answer: three handles were opened and all are closed.
C21_Witness ==
    /\ dPc = "done"
    /\ dRes.err = Nil
    /\ Len(dProbes) = 3
    /\ dFault[dProbes[1].port] = "write"
    /\ dFault[dProbes[2].port] = "none" /\ dProbes[2].port \notin dReplies
    /\ dHandles = <<"closed", "closed", "closed">>

\* Caller c makes a step in which port.Write fails: in Ping, or, the session
\* being marked connected, in Wakeup (called directly or by EnsureGSMReady)
\* or in SendSMS.
FailedWrite(c) ==
    /\ ~WriteOk(port)
    /\ \/ Call_Ping(c)
       \/ connected /\ (Call_Wakeup(c) \/ Ensure_Wakeup(c) \/ Send_Write(c))

\* The error wraps the error of port.Write.
IsWriteError(err) == err # Nil /\ err[Len(err)] = "port write failed"

\* C22: a step in which the Write of SendSMS, Ping or Wakeup fails ends the
\* call with an error that wraps the Write's error, and changes neither
\* a.connected, a.gsmReady, the port, the shutdown flags, the waiters nor
\* the position of the read loop or of any reconnection goroutine.
C22_WriteFailureOnlyReturned ==
    [][\A c \in Callers :
          FailedWrite(c) =>
              /\ pc'[c] = "done"
              /\ IsWriteError(res'[c])
              /\ writes'[c] # <<>> /\ ~writes'[c][Len(writes'[c])].ok
              /\ UNCHANGED <<sessionVars, gateVars, rlVars, supVars, pwPc>>]_vars

\* The device was unplugged and the read loop has not noticed: a SendSMS
\* whose Write failed has returned the error, the session is still marked
\* connected and ready, and no reconnection goroutine exists.
C22_Witness ==
    \E c \in Callers :
        /\ Finished(c) /\ callOp[c] = "send"
        /\ IsWriteError(res[c])
        /\ writes[c] = <<[cmd |-> "send", ok |-> FALSE]>>
        /\ connected /\ gsmReady
        /\ rlPc = "select"
        /\ ~reconnecting /\ \A s \in Sups : supPc[s] = "none"

\* C23: the firmware gets from the line SendSMS wrote the number and the
\* content SendSMS was called with, whatever quotes and backslashes they
\* contain (neither being empty).
C23_SendCommandRoundTrip ==
    (wOp = "send" /\ wPc = "done" /\ wNumber # <<>> /\ wContent # <<>>) =>
        /\ wGot.number = wNumber /\ wGot.content = wContent
        /\ \A k \in 1..Len(fSms) : fSms[k] = [number |-> wNumber, content |-> wContent]

\* Numbers and contents made of letters only do come out as they went in,
\* and go to the modem as they are if the modem is or gets connected.
C23_PlainRoundTrip ==
    (wOp = "send" /\ wPc = "done" /\ wNumber # <<>> /\ wContent # <<>>
        /\ Range(wNumber) \cup Range(wContent) \subseteq {"a"}) =>
        /\ wGot.number = wNumber /\ wGot.content = wContent
        /\ wGot.err \in {<<>>, ErrConnectForSend, ErrSendFailed}
        /\ (wGot.err # ErrConnectForSend) =
              (fSms = <<[number |-> wNumber, content |-> wContent]>>)

\* The connection main has chosen, once it has chosen.
Chosen == sCreated[1]
DiscoveryRan == dPc # "idle"

\* C24, as amended: when main has made its choice, exactly one connection
\* was made; DiscoverArduino ran exactly if the mode was "auto"; "mock" and
\* a failed discovery give the mock connection without any port opened; a
\* discovered port and an explicit path are opened, which gives the real
\* connection on that port if the opening succeeds and the mock connection
\* if it fails.
C24_SelectorChoosesConnection ==
    sPc = "done" =>
        LET mode == GetDeviceMode(sEnv)
        IN /\ Len(sCreated) = 1
           /\ DiscoveryRan <=> mode = SelAuto
           /\ mode = SelMock => (Chosen = MockConn(TtyACM0) /\ sOpened = "none")
           /\ (mode = SelAuto /\ dRes.err # Nil) =>
                  (Chosen = MockConn(TtyACM0) /\ sOpened = "none")
           /\ (mode = SelAuto /\ dRes.err = Nil) =>
                  (sPortName = dRes.port /\ sOpened # "none")
           /\ mode \notin {SelAuto, SelMock} => (sPortName = mode /\ sOpened # "none")
           /\ sOpened = "ok" => Chosen = RealConn(sPortName)
           /\ sOpened = "failed" => Chosen = MockConn(sPortName)

\* C24, as stated: in mode "auto" the connection is the real one on the
\* discovered port, or the mock one when discovery failed; any other value
\* than "mock" and "auto" is opened as a path, without discovery.
C24_RealUnlessDiscoveryFails ==
    sPc = "done" =>
        LET mode == GetDeviceMode(sEnv)
        IN /\ Len(sCreated) = 1
           /\ DiscoveryRan <=> mode = SelAuto
           /\ mode = SelMock => Chosen.kind = "mock"
           /\ (mode = SelAuto /\ dRes.err # Nil) => Chosen.kind = "mock"
           /\ (mode = SelAuto /\ dRes.err = Nil) =>
                  (Chosen.kind = "real" /\ Chosen.port = dRes.port)
           /\ mode \notin {SelAuto, SelMock} => (sPortName = mode /\ sOpened # "none")

\* DEVICE_MODE is unset, discovery found the second port it probed, and the
\* real connection on that port was chosen.
C24_Witness ==
    /\ sPc = "done"
    /\ sEnv = <<>>
    /\ Len(dProbes) = 2
    /\ dRes.err = Nil
    /\ sCreated = <<RealConn(dRes.port)>>

\* The bytes the Reads have returned so far.
ReadSoFar == SubSeq(cSent, 1, BytesRead)

\* The frames of bytes fed as whole lines: each line that ends with a
\* newline, trimmed, the empty ones left out; and the bytes after the last
\* newline.
RECURSIVE WholeLines(_)
WholeLines(bytes) ==
    LET idx == IndexOf(bytes, <<Newline>>, 1)
    IN IF idx = 0 THEN <<>>
       ELSE LET line == TrimSpace(SubSeq(bytes, 1, idx - 1))
            IN (IF line = <<>> THEN <<>> ELSE <<line>>)
                   \o WholeLines(SubSeq(bytes, idx + 1, Len(bytes)))
RECURSIVE Partial(_)
Partial(bytes) ==
    LET idx == IndexOf(bytes, <<Newline>>, 1)
    IN IF idx = 0 THEN bytes ELSE Partial(SubSeq(bytes, idx + 1, Len(bytes)))

\* C25: whatever the sizes of the chunks, between two Reads the lines
\* dispatched are the frames of the bytes read so far fed as whole lines, in
\* that order, and lineBuf holds the bytes after the last newline; while the
\* lines of a chunk are taken out, the lines dispatched followed by the
\* frames still in lineBuf are those frames.
C25_ChunkingDoesNotMatter ==
    (cPc \in {"read", "lines"}) =>
        /\ cDispatched \o WholeLines(lineBuf) = WholeLines(ReadSoFar)
        /\ Partial(lineBuf) = Partial(ReadSoFar)
        /\ cPc = "read" =>
              (cDispatched = WholeLines(ReadSoFar) /\ lineBuf = Partial(ReadSoFar))

\* The bytes a, CR, LF, a, LF came in chunks of 1, 3 and 1 bytes: the second
\* chunk ended the first line and began the second; both lines were
\* dispatched, trimmed, and lineBuf is empty.
C25_Witness ==
    /\ cPc = "read"
    /\ cSent = <<"a", CarriageReturn, Newline, "a", Newline>>
    /\ cChunks = <<1, 3, 1>>
    /\ cDispatched = << <<"a">>, <<"a">> >>
    /\ lineBuf = <<>>

\* The step of readLoop that handled a line: the history grew by that line.
Handled(line) == rxLog' = Append(rxLog, line)

\* readLoop goes on: it is at its Read and can get data, or it can handle
\* the next line of the buffer, line, or it can make the save it is at.
ReadLoopGoesOn(line) ==
    \/ rlPc = "select" /\ ENABLED RL_Read
    \/ rlPc = "dispatch" /\ ENABLED RL_Dispatch(line)
    \/ rlPc = "save" /\ ENABLED RL_Save

\* The session but for the position of readLoop.
SessionButLoop == <<sessionVars, envVars, gateVars, supVars, pwPc, callerVars, ghostVars>>

\* C26: the step that handles a line json.Unmarshal rejects changes nothing
\* of the session (readiness, phase, waiters) and is followed by no
\* SaveReceivedSMS call: readLoop goes to the next line of the buffer or
\* back to its Read, and any line, well-formed or not, is handled as before.
C26_UndecodableLineDropped ==
    /\ [][\A line \in AllLines :
            (Handled(line) /\ ~line.ok) =>
                /\ UNCHANGED <<SessionButLoop, saved>>
                /\ rlPc' \in {"dispatch", "select"}]_vars
    /\ [](\A line \in AllLines :
            (rxLog # <<>> /\ ~rxLog[Len(rxLog)].ok /\ Len(rxLog) < MaxRx)
                => (rlPc # "save" /\ ReadLoopGoesOn(line)))

\* An undecodable line that names the event "received" and the gsm state
\* "connected" was handled first, then a received event without gsm field:
\* only the second was saved, and the session is still not ready.
C26_Witness ==
    /\ db
    /\ Len(rxLog) = 2
    /\ rxLog[1] = BadLine
    /\ rxLog[2].ok /\ rxLog[2].event = "received" /\ rxLog[2].gsm = ""
    /\ Len(saved) = 1
    /\ saved[1].content = rxLog[2].content
    /\ ~gsmReady

\* C27: the step that handles a decoded line with a gsm field sets gsmReady
\* to (gsm = "connected") whatever the line's event and status are, empties
\* the waiter list when the session becomes ready, and does so before the
\* line is handled further: the SaveReceivedSMS call of the line comes
\* later and sees the new value.  A decoded line without gsm field leaves
\* the gate as it is.
C27_GsmFieldFeedsGate ==
    [][/\ \A line \in AllFrames :
             Handled(line) =>
                /\ UNCHANGED saved
                /\ IF line.gsm # ""
                   THEN /\ gsmReady' = (line.gsm = "connected")
                        /\ (~gsmReady /\ gsmReady') => gsmWaiters' = <<>>
                   ELSE UNCHANGED <<gsmReady, gsmWaiters, chanBuf>>
       /\ (saved' # saved /\ rxLog[Len(rxLog)].gsm # "") =>
             saved'[Len(saved')].ready = (rxLog[Len(rxLog)].gsm = "connected")]_vars

\* A line with status "ok" and no gsm field left the session not ready, then
\* a received event with status "ok" and gsm "connected" made it ready, and
\* its save saw the session ready.
C27_Witness ==
    /\ db
    /\ Len(rxLog) = 2
    /\ rxLog[1].ok /\ rxLog[1].gsm = "" /\ rxLog[1].status = "ok"
    /\ rxLog[2].ok /\ rxLog[2].event = "received" /\ rxLog[2].status = "ok"
    /\ rxLog[2].gsm = "connected"
    /\ gsmReady
    /\ Len(saved) = 1
    /\ saved[1].ready

\* The received events among the decoded lines of a history, in order.
ReceivedEvents(log) == SelectSeq(log, LAMBDA l : l.ok /\ l.event = "received")

\* C28: in a session with a database the SaveReceivedSMS calls are, in the
\* same order, the received events handled so far, one call each with the
\* event's number and content, the call for the event handled last being
\* the next step of readLoop, and no other line makes a call; after a call
\* that failed readLoop goes on, and every line is still handled.  (A
\* session without a database makes no call.)
C28_SinkOncePerReceived ==
    /\ db => /\ Len(saved) = Len(ReceivedEvents(rxLog)) - (IF rlPc = "save" THEN 1 ELSE 0)
             /\ \A i \in 1..Len(saved) :
                   /\ saved[i].number = ReceivedEvents(rxLog)[i].number
                   /\ saved[i].content = ReceivedEvents(rxLog)[i].content
    /\ rlPc = "save" => (rxLog # <<>> /\ rxLog[Len(rxLog)].ok
                            /\ rxLog[Len(rxLog)].event = "received")
    /\ ~db => saved = <<>>
    /\ \A line \in AllLines :
          (saved # <<>> /\ ~saved[Len(saved)].ok /\ Len(rxLog) < MaxRx)
              => ReadLoopGoesOn(line)

\* Two received events for the same number came one after the other, the
\* second one with a gsm field; the save of the first failed, the save of
\* the second was made all the same, in that order.
C28_Witness ==
    /\ Len(rxLog) = 2
    /\ \A i \in 1..2 : rxLog[i].ok /\ rxLog[i].event = "received" /\ rxLog[i].number = "+1"
    /\ rxLog[1].content = "a" /\ rxLog[2].content = "b"
    /\ rxLog[2].gsm = "connected"
    /\ Len(saved) = 2
    /\ saved[1].content = "a" /\ ~saved[1].ok
    /\ saved[2].content = "b" /\ saved[2].ok

\* C29: the reconnection attempt of the session main has built runs
\* DiscoverArduino if and only if DEVICE_MODE selected auto-discovery, and a
\* session configured with a path retries the port it was opened on.
C29_DiscoveryOnlyWhenAuto ==
    sPc = "reconnecting" =>
        /\ sTarget.discovery <=> GetDeviceMode(sEnv) = SelAuto
        /\ GetDeviceMode(sEnv) # SelAuto =>
              sTarget = [discovery |-> FALSE, port |-> sPortName]

\* The step of run s that swaps the new handle in, and the step that ends
\* an attempt whose discovery or Open failed.
Swapped(s) == supPc[s] = "swap" /\ supPc'[s] = "warmup"
OpenFailed(s) == supPc[s] = "open" /\ supPc'[s] = "loop"

\* C30: a.connected is never true while a.port is a closed handle, at any
\* moment and so whenever a writer holds a.mu; the swap of reconnect is one
\* step taken while no other goroutine holds a.mu, and it closes the handle
\* it replaces, installs the handle it opened and sets a.connected; an
\* attempt whose Open fails changes nothing of the session and goes to the
\* next iteration of the loop.
C30_SwapInOneCriticalSection ==
    /\ [](connected => hstat[port] # "closed")
    /\ [][\A s \in Sups :
            /\ Swapped(s) =>
                  /\ mu = 0 /\ mu' = 0
                  /\ port' = supPort[s] /\ port' # port
                  /\ hstat'[port] = "closed"
                  /\ hstat'[port'] = hstat[port']
                  /\ connected'
            /\ OpenFailed(s) =>
                  UNCHANGED <<sessionVars, gateVars, supPort, reconnecting>>]_vars

\* A reconnection has closed the first handle and installed the one it
\* opened; a SendSMS that found the session connected has written on the
\* new handle and holds a.mu.
C30_Witness ==
    /\ connected
    /\ port > 0
    /\ hstat[port] = "open"
    /\ hstat[0] = "closed"
    /\ \E c \in Callers : pc[c] = "send_sleep" /\ mu = c /\ writes[c] # <<>>

\* Whether a run of the supervisor is in the warm-up sleep of reconnect
\* (line 381), which follows its open and swap.
InWarmup == \E s \in Sups : supPc[s] = "warmup"

\* The step of a caller that writes on the handle now installed.
WritesOnPort ==
    \E c \in Callers :
        /\ Len(writes'[c]) > Len(writes[c])
        /\ writes'[c][Len(writes'[c])] \in
              {WriteRec("send", port), WriteRec("ping", port), WriteRec("wakeup", port)}

\* C31: while the warm-up sleep that follows a reopen has not ended,
\* IsConnected() does not report the session connected, and no SendSMS, Ping
\* or Wakeup writes on the handle installed.
C31_UsableOnlyAfterWarmup ==
    /\ [](InWarmup => ~IsConnected)
    /\ [][InWarmup => ~WritesOnPort]_vars

\* C32: every step of a caller in SendSMS, Ping, Wakeup, WaitForGSM and
\* EnsureGSMReady leaves a.connected and a.gsmReady as they are (IsConnected
\* and IsGSMReady only read them); Close leaves a.gsmReady as it is and sets
\* a.connected to false.
C32_CallersLeavePhaseExceptClose ==
    [][/\ \A c \in Callers : Call_Close(c) => (~connected' /\ gsmReady' = gsmReady)
       /\ (<<connected, gsmReady>>' # <<connected, gsmReady>> /\ caller) =>
             \E c \in Callers : Call_Close(c)]_vars

\* C32 as stated: every step of a caller, Close included, leaves
\* a.connected and a.gsmReady as they are.
C32_CallersLeavePhase == [][caller => UNCHANGED <<connected, gsmReady>>]_vars

\* A SendSMS has written its command and returned, then Close was called on
\* the connected and ready session: it is disconnected and still ready.
C32_Witness ==
    /\ closeDone
    /\ ~connected
    /\ gsmReady
    /\ \E c, d \in Callers :
          /\ callOp[c] = "close" /\ pc[c] = "done"
          /\ callOp[d] = "send" /\ pc[d] = "done" /\ writes[d] # <<>> /\ res[d] = Nil

\* C33: the step that handles a decoded line whose gsm field is not
\* "connected" leaves the session not ready, puts nothing into any waiter's
\* channel and leaves a.gsmWaiters as it is; the step that then makes the
\* session ready puts a notification into the channel of every waiter on
\* the list and empties the list.
C33_NotReadyUpdateKeepsWaiters ==
    [][\A line \in AllFrames :
          Handled(line) =>
             /\ line.gsm \notin {"", "connected"} =>
                   (~gsmReady' /\ UNCHANGED <<gsmWaiters, chanBuf>>)
             /\ (line.gsm = "connected" /\ ~gsmReady) =>
                   /\ gsmReady'
                   /\ gsmWaiters' = <<>>
                   /\ \A c \in Callers :
                         c \in Range(gsmWaiters) => chanBuf'[c] = 1]_vars

\* A caller registered as a waiter; then a line reporting "disconnected" was
\* handled, then a line reporting "connected", and the WaitForGSM of that
\* caller returned true.
C33_Witness ==
    /\ Len(rxLog) = 2
    /\ rxLog[1].ok /\ rxLog[1].gsm = "disconnected"
    /\ rxLog[2].ok /\ rxLog[2].gsm = "connected"
    /\ gsmReady
    /\ \E c \in Callers :
          /\ rxSeen = << <<c>>, <<c>> >>
          /\ callOp[c] = "wait" /\ pc[c] = "done" /\ waitRes[c]

\* C34: whenever IsGSMReady() reports the GSM ready, IsConnected() reports
\* the session connected.
C34_ReadyImpliesConnected == IsGSMReady => IsConnected

\* C35: whenever a.gsmReady is true a.gsmWaiters is empty; a step appends
\* to a.gsmWaiters only while a.gsmReady is false, and a step that makes
\* a.gsmReady true leaves a.gsmWaiters empty.
C35_ReadyMeansNoWaiters ==
    /\ [](gsmReady => gsmWaiters = <<>>)
    /\ [][/\ Len(gsmWaiters') > Len(gsmWaiters) => (~gsmReady /\ ~gsmReady')
          /\ (~gsmReady /\ gsmReady') => gsmWaiters' = <<>>]_vars

\* The session became ready while a caller was on the waiter list: the list
\* is empty and the caller's notification is in its channel; another
\* caller is in WaitForGSM before its test of a.gsmReady.
C35_Witness ==
    /\ gsmReady
    /\ gsmWaiters = <<>>
    /\ \E c, d \in Callers :
          /\ regd[c] /\ pc[c] = "waiting" /\ chanBuf[c] = 1
          /\ callOp[d] = "wait" /\ pc[d] = "wait_check"

\* C36: every channel on a.gsmWaiters belongs to a caller that is blocked in
\* the select of WaitForGSM; none is the channel of a call that has
\* returned.
C36_WaitersAreBlockedCallers ==
    \A i \in 1..Len(gsmWaiters) :
        /\ gsmWaiters[i] # Abandoned
        /\ pc[gsmWaiters[i]] = "waiting"

\* C37: once Close has returned and readLoop and every attemptReconnection
\* goroutine have returned, no handle the session opened is open.
C37_NoPortLeftOpen ==
    (closeDone /\ rlPc = "done" /\ \A s \in Sups : supPc[s] = "none")
        => \A h \in Handles : hstat[h] \notin {"open", "dead"}

\* C38: handleDisconnection marks the session disconnected only when the
\* handle installed has stopped working: the error of a Read on a handle
\* that reconnect has closed and replaced never takes a working connection
\* down.
C38_StaleReadNeverDisconnects ==
    [][(connected /\ ~connected' /\ rlPc = "hd_lock") => hstat[port] # "open"]_vars

\* C39: no line passed to handleResponse holds bytes read from the port
\* that was lost together with bytes read from the port reconnect installed.
C39_NoFrameAcrossTransports == ~cMixed
====
